---- MODULE Spec2Model ----
(***************************************************************************)
(* A model of the openclaw-session-audit daemon: the seen-id set           *)
(* (src/src/state.ts), the event batcher (src/src/events.ts) and the log   *)
(* tailer (src/src/watcher.ts).                                            *)
(*                                                                         *)
(* Time is counted in abstract ticks.  The configuration values of         *)
(* src/src/config.ts are scaled down, keeping their order                  *)
(* (rateLimitMs < batchWindowMs < EVENT_TTL_MS).                           *)
(***************************************************************************)
EXTENDS Integers, Sequences, FiniteSets, TLC

\* ------------------------------------------------------------ bounds ----

\* config.ts:44 maxBatchSize (15), scaled
MAX_BATCH_SIZE == 3
\* config.ts:43 batchWindowMs (10000), scaled
BATCH_WINDOW_MS == 2
\* config.ts:42 rateLimitMs (2000), scaled
RATE_LIMIT_MS == 1
\* events.ts:14 EVENT_TTL_MS (3600000), scaled
EVENT_TTL_MS == 3
\* config.ts:47 maxSeenIds (5000), scaled
MAX_SEEN_IDS == 2
\* the clock stops here
MaxTime == 4
\* PendingEvent objects ever created
MaxEvents == 4
\* hasSeenId calls that insert, in SpecSeen
MaxInserts == 5
\* config.ts:46 maxFileSize (10000000), scaled: bytes of the largest file tailed
MAX_FILE_SIZE == 8
\* lines ever written to a session file
MaxLines == 3
\* tailFile calls in progress at once
MaxPasses == 2
\* config.ts:49 headerIntervalMs (60000), scaled
HEADER_INTERVAL_MS == 2
\* config.ts:45 maxMessageLength
MAX_MESSAGE_LENGTH == 1700

\* ------------------------------------------------------------ helpers ---

Range(s) == {s[i] : i \in 1..Len(s)}

\* Array.prototype.slice(-n) for n > 0: the last n elements
SliceLast(s, n) == IF Len(s) <= n THEN s ELSE SubSeq(s, Len(s) - n + 1, Len(s))

\* ------------------------------------------------------------ state -----

VARIABLES
  now,             \* Date.now()
  retryAfterMs,    \* config.ts retryAfterMs
  heap,            \* the PendingEvent objects, by reference (index)
  pendingEvents,   \* events.ts pendingEvents: group key -> array of references
  batchTimers,     \* events.ts batchTimers: group key -> timer handle (0: no entry)
  timerHeap,       \* the runtime's armed flush timers
  nextTimer,       \* next timer handle
  lastEventTime,   \* events.ts lastEventTime: group key -> time (-1: no entry)
  flights,         \* flushEvents calls suspended in the RATE_LIMIT_MS sleep
  rendered,        \* batches handed to _buildMessage
  delivered,       \* per event reference: in how many batches handed to _sendMessage
  dropped,         \* the event references flushEvents detached and dropped under cooldown
  lastSendAt,      \* when _sendMessage was last called (-1: never)
  seenIdsSet,      \* state.ts seenIdsSet, in insertion order
  insertLog,       \* the identifiers hasSeenId inserted, oldest first
  lastCall,        \* the last hasSeenId call: argument, result, inserting calls so far
  debugProcessAll, \* SESSION_AUDIT_DEBUG_PROCESS_ALL === "true"
  files,           \* per session file: its lines, each followed by a newline
  openTail,        \* per session file: the last line has no newline yet
  offsets,         \* state.ts state.offsets (-1: undefined)
  passes,          \* the tailFile calls in progress
  toolCallTimestamps, \* events.ts toolCallTimestamps: its keys, in insertion order
  lastLine,        \* the last line tailFile handled: what it was and how it ended
  resultFor,       \* per event reference: the tool-result line tailed while it was pending
  lastPass,        \* per session file: the last tailFile call that stored an offset
  firstSize,       \* per session file: the size stat gave when its offset was made (-1: not yet)
  config,          \* config.ts CONFIG: is there a channel, a targetId
  lastHeaderTime,  \* message.ts lastHeaderTime: group key -> time (-1: no entry)
  built,           \* the last buildMessage call: what it was given and what it returned
  headerLog,       \* per group key: when a message with header was last built (-1: never)
  plainLog,        \* per group key: a message without header was built since then
  sent,            \* the last sendMessage call: length of its text, length handed to spawn
  shutdown,        \* gracefulShutdown: its flag, the watchers, what its drain waits for
  daemon,          \* daemon.ts: its configuration, batches, timers and sink calls
  startup,         \* main: where it is, the exit status, the PID file, what it has done
  diffCall,        \* the last parseDiffStats call: the diff text and what it returned
  metaCall,        \* the last call that wrote sessionMetadata: which, for which key, the map before
  stateFile,       \* the state file on disk: written or not, the offsets and seen ids in it
  disk,            \* STATE_FILE and STATE_FILE.tmp as a crash finds them, and the save going on
  lock,            \* part_009 stateLock and stateQueue, and where each saveStateAtomic call is
  sessionMetadata, \* watcher.ts sessionMetadata: session key -> entry or none, its thinkingLevel
  readError        \* the last tailFile call whose stream failed: where it was, what it
                   \* left; `again` tells one failure from the next

batchVars == <<now, retryAfterMs, heap, pendingEvents, batchTimers, timerHeap,
               nextTimer, lastEventTime, flights, rendered, delivered, dropped,
               lastSendAt, toolCallTimestamps>>
seenVars == <<seenIdsSet, insertLog, lastCall>>
fileVars == <<files, openTail>>
metaVars == <<sessionMetadata, readError>>
tailVars == <<debugProcessAll, offsets, passes, lastLine, resultFor, lastPass, firstSize,
              metaVars>>
msgVars == <<config, lastHeaderTime, built, headerLog, plainLog, sent>>
saveVars == <<disk, lock>>
moreVars == <<diffCall, metaCall, stateFile, saveVars>>
restVars == <<msgVars, shutdown, daemon, startup, moreVars>>
vars == <<batchVars, seenVars, fileVars, tailVars, restVars>>

\* ------------------------------------------------------------ state.ts --

\* row.id values of log records, and tool call ids
RowIdSeq == <<"a", "b", "c">>
RowIds == Range(RowIdSeq)
ToolIdSeq == <<"X", "Y">>
ToolIds == Range(ToolIdSeq)
\* an event identifier: `${prefix}:${row.id}`, or the bare tool id, kept as a pair
SeenKey(prefix, id) == <<prefix, id>>
Ids == {SeenKey("thinking_level", x) : x \in RowIds} \cup {SeenKey("", y) : y \in ToolIds}

\* markAsSeen trimming from the wrong end: slice(0, MAX_SEEN_IDS)
markAsSeenKeepOldest(set, id) ==
  LET added == IF id \in Range(set) THEN set ELSE Append(set, id)
  IN  IF Len(added) > MAX_SEEN_IDS THEN SubSeq(added, 1, MAX_SEEN_IDS) ELSE added

\* markAsSeen: add, then keep the MAX_SEEN_IDS most recent
markAsSeen(set, id) ==
  LET added == IF id \in Range(set) THEN set ELSE Append(set, id)
  IN  IF Len(added) > MAX_SEEN_IDS THEN SliceLast(added, MAX_SEEN_IDS) ELSE added

\* hasSeenId: the value returned
hasSeenIdResult(set, id) == id \in Range(set)

\* hasSeenId that answers but does not record the identifier
hasSeenIdSetNoAdd(set, id) == set

\* hasSeenId that moves an identifier it finds to the most recent place
hasSeenIdSetRefresh(set, id) ==
  IF id \in Range(set)
  THEN Append(SelectSeq(set, LAMBDA x : x # id), id)
  ELSE markAsSeen(set, id)

\* hasSeenId: the set afterwards
hasSeenIdSet(set, id) == IF id \in Range(set) THEN set ELSE markAsSeen(set, id)

\* ------------------------------------------------------------ events.ts -

SessionKeys == {"s1"}
\* a file's thread number; "" when the file name has no -topic-N suffix
ThreadNumbers == {"", "2"}
\* `${sessionKey}-topic-${threadNumber}` or sessionKey, kept as a pair
GroupKeyOf(sessionKey, threadNumber) == <<sessionKey, threadNumber>>
GroupKeys == {GroupKeyOf(s, t) : s \in SessionKeys, t \in ThreadNumbers}

\* the batcher's state as one value, so that one handler can call another
BatchState ==
  [now |-> now, retryAfterMs |-> retryAfterMs, heap |-> heap,
   pendingEvents |-> pendingEvents, batchTimers |-> batchTimers,
   timerHeap |-> timerHeap, nextTimer |-> nextTimer,
   lastEventTime |-> lastEventTime, flights |-> flights, rendered |-> rendered,
   toolCallTimestamps |-> toolCallTimestamps, dropped |-> dropped]

SetBatchState(st) ==
  /\ heap' = st.heap
  /\ pendingEvents' = st.pendingEvents
  /\ batchTimers' = st.batchTimers
  /\ timerHeap' = st.timerHeap
  /\ nextTimer' = st.nextTimer
  /\ lastEventTime' = st.lastEventTime
  /\ flights' = st.flights
  /\ rendered' = st.rendered
  /\ toolCallTimestamps' = st.toolCallTimestamps
  /\ dropped' = st.dropped

\* clearTimeout(handle)
clearTimeout(st, handle) ==
  [st EXCEPT !.timerHeap = {t \in @ : t.id # handle}]

\* flushEvents leaving the batch in the pending map while it sends it
flushEventsNoDetach(st, groupKey) ==
  LET events == st.pendingEvents[groupKey]
      untimed == [st EXCEPT !.batchTimers[groupKey] = 0]
  IN  IF events = <<>> THEN untimed
      ELSE IF st.now < st.retryAfterMs
           THEN [untimed EXCEPT !.dropped = @ \cup Range(events)]
      ELSE [untimed EXCEPT
              !.rendered = @ \cup {[key |-> groupKey, batch |-> events,
                                    events |-> [i \in 1..Len(events) |-> st.heap[events[i]]]]},
              !.flights = @ \cup {[key |-> groupKey, batch |-> events,
                                   due |-> st.now + RATE_LIMIT_MS]}]

\* flushEvents that leaves the batch pending when it drops it under cooldown
flushEventsKeepDropped(st, groupKey) ==
  LET events == st.pendingEvents[groupKey]
      detached == [st EXCEPT !.pendingEvents[groupKey] = <<>>,
                             !.batchTimers[groupKey] = 0]
  IN  IF events = <<>> THEN detached
      ELSE IF st.now < st.retryAfterMs
           THEN [st EXCEPT !.batchTimers[groupKey] = 0, !.dropped = @ \cup Range(events)]
      ELSE [detached EXCEPT
              !.rendered = @ \cup {[key |-> groupKey, batch |-> events,
                                    events |-> [i \in 1..Len(events) |-> st.heap[events[i]]]]},
              !.flights = @ \cup {[key |-> groupKey, batch |-> events,
                                   due |-> st.now + RATE_LIMIT_MS]}]

\* flushEvents up to its await: detach the batch, drop it under cooldown,
\* else build the message and go to sleep for RATE_LIMIT_MS
\* flushEvents taking the pending events of every group into its batch
flushEventsAllKeys(st, groupKey) ==
  LET keys == {k \in GroupKeys : k # groupKey}
      other == CHOOSE k \in keys : TRUE
      events == st.pendingEvents[groupKey] \o st.pendingEvents[other]
      detached == [st EXCEPT !.pendingEvents = [k \in GroupKeys |-> <<>>],
                             !.batchTimers = [k \in GroupKeys |-> 0],
                             !.timerHeap = {}]
  IN  IF st.pendingEvents[groupKey] = <<>>
      THEN [st EXCEPT !.pendingEvents[groupKey] = <<>>, !.batchTimers[groupKey] = 0]
      ELSE IF st.now < st.retryAfterMs
           THEN [detached EXCEPT !.dropped = @ \cup Range(events)]
      ELSE [detached EXCEPT
              !.rendered = @ \cup {[key |-> groupKey, batch |-> events,
                                    events |-> [i \in 1..Len(events) |-> st.heap[events[i]]]]},
              !.flights = @ \cup {[key |-> groupKey, batch |-> events,
                                   due |-> st.now + RATE_LIMIT_MS]}]

\* flushEvents without batchTimers.delete(groupKey)
flushEventsKeepTimer(st, groupKey) ==
  LET events == st.pendingEvents[groupKey]
      detached == [st EXCEPT !.pendingEvents[groupKey] = <<>>]
  IN  IF events = <<>> THEN detached
      ELSE IF st.now < st.retryAfterMs
           THEN [detached EXCEPT !.dropped = @ \cup Range(events)]
      ELSE [detached EXCEPT
              !.rendered = @ \cup {[key |-> groupKey, batch |-> events,
                                    events |-> [i \in 1..Len(events) |-> st.heap[events[i]]]]},
              !.flights = @ \cup {[key |-> groupKey, batch |-> events,
                                   due |-> st.now + RATE_LIMIT_MS]}]

flushEvents(st, groupKey) ==
  LET events == st.pendingEvents[groupKey]
      detached == [st EXCEPT !.pendingEvents[groupKey] = <<>>,
                             !.batchTimers[groupKey] = 0]
  IN  IF events = <<>> THEN detached
      ELSE IF st.now < st.retryAfterMs
           THEN [detached EXCEPT !.dropped = @ \cup Range(events)]
      ELSE [detached EXCEPT
              !.rendered = @ \cup {[key |-> groupKey, batch |-> events,
                                    events |-> [i \in 1..Len(events) |-> st.heap[events[i]]]]},
              !.flights = @ \cup {[key |-> groupKey, batch |-> events,
                                   due |-> st.now + RATE_LIMIT_MS]}]

\* scheduleFlush as it was before the size check moved ahead of the timer check
scheduleFlushTimerFirst(st, groupKey) ==
  IF st.batchTimers[groupKey] # 0 THEN st
  ELSE IF Len(st.pendingEvents[groupKey]) >= MAX_BATCH_SIZE
  THEN flushEvents(st, groupKey)
  ELSE [st EXCEPT
          !.timerHeap = @ \cup {[id |-> st.nextTimer, key |-> groupKey,
                                 due |-> st.now + BATCH_WINDOW_MS]},
          !.batchTimers[groupKey] = st.nextTimer,
          !.nextTimer = @ + 1]

\* scheduleFlush arming a timer without looking for one already armed
scheduleFlushNoHasCheck(st, groupKey) ==
  IF Len(st.pendingEvents[groupKey]) >= MAX_BATCH_SIZE
  THEN flushEvents([clearTimeout(st, st.batchTimers[groupKey])
                      EXCEPT !.batchTimers[groupKey] = 0], groupKey)
  ELSE [st EXCEPT
          !.timerHeap = @ \cup {[id |-> st.nextTimer, key |-> groupKey,
                                 due |-> st.now + BATCH_WINDOW_MS]},
          !.batchTimers[groupKey] = st.nextTimer,
          !.nextTimer = @ + 1]

\* scheduleFlush as a debounce: every event puts the timer off again
scheduleFlushRearm(st, groupKey) ==
  IF Len(st.pendingEvents[groupKey]) >= MAX_BATCH_SIZE
  THEN flushEvents([clearTimeout(st, st.batchTimers[groupKey])
                      EXCEPT !.batchTimers[groupKey] = 0], groupKey)
  ELSE [clearTimeout(st, st.batchTimers[groupKey]) EXCEPT
          !.timerHeap = @ \cup {[id |-> st.nextTimer, key |-> groupKey,
                                 due |-> st.now + BATCH_WINDOW_MS]},
          !.batchTimers[groupKey] = st.nextTimer,
          !.nextTimer = @ + 1]

scheduleFlush(st, groupKey) ==
  IF Len(st.pendingEvents[groupKey]) >= MAX_BATCH_SIZE
  THEN flushEvents([clearTimeout(st, st.batchTimers[groupKey])
                      EXCEPT !.batchTimers[groupKey] = 0], groupKey)
  ELSE IF st.batchTimers[groupKey] # 0 THEN st
  ELSE [st EXCEPT
          !.timerHeap = @ \cup {[id |-> st.nextTimer, key |-> groupKey,
                                 due |-> st.now + BATCH_WINDOW_MS]},
          !.batchTimers[groupKey] = st.nextTimer,
          !.nextTimer = @ + 1]

\* addEvent with unshift for push
addEventFront(st, sessionKey, event) ==
  LET groupKey == GroupKeyOf(sessionKey, event.threadNumber)
      ref == Len(st.heap) + 1
      pushed == [st EXCEPT !.heap = Append(@, event),
                           !.pendingEvents[groupKey] = <<ref>> \o @,
                           !.lastEventTime[groupKey] = st.now]
  IN  scheduleFlush(pushed, groupKey)

\* addEvent: the new object gets the next reference
addEvent(st, sessionKey, event) ==
  LET groupKey == GroupKeyOf(sessionKey, event.threadNumber)
      ref == Len(st.heap) + 1
      pushed == [st EXCEPT !.heap = Append(@, event),
                           !.pendingEvents[groupKey] = Append(@, ref),
                           !.lastEventTime[groupKey] = st.now]
  IN  scheduleFlush(pushed, groupKey)

\* the loop of flushAllBatches over the entries of batchTimers
RECURSIVE flushTimerEntries(_, _)
flushTimerEntries(st, keys) ==
  IF keys = {} THEN st
  ELSE LET k == CHOOSE x \in keys : TRUE
       IN  flushTimerEntries(flushEvents(clearTimeout(st, st.batchTimers[k]), k),
                             keys \ {k})

\* flushAllBatches up to its await
flushAllBatches(st) ==
  LET flushed == flushTimerEntries(st, {k \in GroupKeys : st.batchTimers[k] # 0})
  IN  [flushed EXCEPT !.batchTimers = [k \in GroupKeys |-> 0]]

\* cleanupStaleData: the loop over lastEventTime
\* events.ts:135 the toolCallTimestamps entries cleanupStaleData keeps
ToolTimestampsKept == 1000
cleanupStaleData(st) ==
  LET stale == {k \in GroupKeys : /\ st.lastEventTime[k] # -1
                                  /\ st.now - st.lastEventTime[k] > EVENT_TTL_MS}
  IN  [st EXCEPT
         !.pendingEvents = [k \in GroupKeys |-> IF k \in stale THEN <<>> ELSE @[k]],
         !.lastEventTime = [k \in GroupKeys |-> IF k \in stale THEN -1 ELSE @[k]],
         !.timerHeap = {t \in @ : ~(\E k \in stale : st.batchTimers[k] = t.id)},
         !.batchTimers = [k \in GroupKeys |-> IF k \in stale THEN 0 ELSE @[k]],
         !.toolCallTimestamps = IF Len(@) > ToolTimestampsKept
                                THEN SliceLast(@, ToolTimestampsKept) ELSE @]

\* parseDiffStats' undefined
NoStats == [defined |-> FALSE, added |-> 0, removed |-> 0, addedChars |-> 0,
            removedChars |-> 0]

\* a PendingEvent as watcher.ts builds it; data.durationMs null is -1
Event(type, id, sessionKey, threadNumber, timestamp, name) ==
  [type |-> type, id |-> id, sessionKey |-> sessionKey,
   threadNumber |-> threadNumber, timestamp |-> timestamp, name |-> name,
   isError |-> FALSE, durationMs |-> -1, diffStats |-> NoStats]

\* ------------------------------------------------------------ watcher.ts -

\* a session file: <id>.jsonl or <id>-topic-<n>.jsonl
Files == {[id |-> "s1", topic |-> ""]}
\* metadata.ts getBaseSessionId, getThreadNumber
getBaseSessionId(filename) == filename.id
getThreadNumber(filename) == filename.topic


\* a line of a session file; len is its length in bytes without the newline
Row(kind, len, id, name, isError, durationMs, diff, timestamp) ==
  [kind |-> kind, len |-> len, id |-> id, name |-> name, isError |-> isError,
   durationMs |-> durationMs, diff |-> diff, timestamp |-> timestamp]

\* row.thinkingLevel of a thinking_level_change record: each record here
\* carries a level named after its id
thinkingLevelOf(row) == row.id

\* a session without an entry in sessionMetadata, and the entry sessions.json gives
NoMetadata == [exists |-> FALSE, thinkingLevel |-> ""]
LoadedMetadata == [exists |-> TRUE, thinkingLevel |-> ""]

\* a line of whitespace only (len 0: the empty line)
BlankRow(len) == Row("blank", len, "", "", FALSE, -1, <<>>, 0)
\* a line JSON.parse rejects
BadRow(len) == Row("bad", len, "", "", FALSE, -1, <<>>, 0)
\* {"type":"thinking_level_change","id":id,...}
LevelRow(id) == Row("thinking_level_change", 2, id, "", FALSE, -1, <<>>, 1)
\* {"timestamp":1,"message":{"role":"assistant","content":[{"type":"toolCall","id":id,"name":name}]}}
ToolCallRow(id, name) == Row("toolCall", 2, id, name, FALSE, -1, <<>>, 1)
\* {"timestamp":3,"message":{"role":"toolResult","toolCallId":id,"isError":isError,
\*  "details":{"durationMs":durationMs,"diff":diff}}}; durationMs -1 and diff <<>>: absent
ToolResultRow(id, isError, durationMs, diff) ==
  Row("toolResult", 2, id, "", isError, durationMs, diff, 3)
\* no line
NoRow == Row("none", 0, "", "", FALSE, -1, <<>>, 0)

\* String.prototype.startsWith, on a line held as its characters
startsWith(line, prefix) ==
  /\ Len(line) >= Len(prefix)
  /\ SubSeq(line, 1, Len(prefix)) = prefix

\* parseDiffStats that counts the +++ and --- header lines too
parseDiffStatsWithHeaders(diff) ==
  LET isAdded(l) == startsWith(l, <<"+">>)
      isRemoved(l) == startsWith(l, <<"-">>)
      count[i \in 0..Len(diff)] ==
        IF i = 0 THEN [added |-> 0, removed |-> 0, addedChars |-> 0, removedChars |-> 0]
        ELSE LET c == count[i - 1]
                 l == diff[i]
             IN  [added |-> c.added + (IF isAdded(l) THEN 1 ELSE 0),
                  removed |-> c.removed + (IF isRemoved(l) THEN 1 ELSE 0),
                  addedChars |-> c.addedChars + (IF isAdded(l) THEN Len(l) - 1 ELSE 0),
                  removedChars |-> c.removedChars + (IF isRemoved(l) THEN Len(l) - 1 ELSE 0)]
      total == count[Len(diff)]
  IN  IF diff = <<>> THEN NoStats
      ELSE IF total.added > 0 \/ total.removed > 0
           THEN [defined |-> TRUE, added |-> total.added, removed |-> total.removed,
                 addedChars |-> total.addedChars, removedChars |-> total.removedChars]
           ELSE NoStats

\* format.ts parseDiffStats; diff is the blob split at "\n"
parseDiffStats(diff) ==
  LET isAdded(l) == startsWith(l, <<"+">>) /\ ~startsWith(l, <<"+", "+", "+">>)
      isRemoved(l) == startsWith(l, <<"-">>) /\ ~startsWith(l, <<"-", "-", "-">>)
      count[i \in 0..Len(diff)] ==
        IF i = 0 THEN [added |-> 0, removed |-> 0, addedChars |-> 0, removedChars |-> 0]
        ELSE LET c == count[i - 1]
                 l == diff[i]
             IN  [added |-> c.added + (IF isAdded(l) THEN 1 ELSE 0),
                  removed |-> c.removed + (IF isRemoved(l) THEN 1 ELSE 0),
                  addedChars |-> c.addedChars + (IF isAdded(l) THEN Len(l) - 1 ELSE 0),
                  removedChars |-> c.removedChars + (IF isRemoved(l) THEN Len(l) - 1 ELSE 0)]
      total == count[Len(diff)]
  IN  IF diff = <<>> THEN NoStats
      ELSE IF total.added > 0 \/ total.removed > 0
           THEN [defined |-> TRUE, added |-> total.added, removed |-> total.removed,
                 addedChars |-> total.addedChars, removedChars |-> total.removedChars]
           ELSE NoStats

\* bytes of a file: every line and its newline, but the last newline if missing
FileSize(content, open) ==
  LET sum[i \in 0..Len(content)] == IF i = 0 THEN 0 ELSE sum[i - 1] + content[i].len + 1
  IN  sum[Len(content)] - (IF open THEN 1 ELSE 0)

\* what is left of line L when the stream starts n bytes before its end
Fragment(L, n) == IF n = 0 \/ L.kind = "blank" THEN BlankRow(n) ELSE BadRow(n)

\* createReadStream(start: offset) + readline: the lines from byte offset on.
\* Line i starts at byte `start`; an unterminated last line is emitted if not empty.
RECURSIVE linesFrom(_, _, _, _, _)
linesFrom(content, open, offset, i, start) ==
  IF i > Len(content) THEN <<>>
  ELSE LET L == content[i]
           endpos == start + L.len
           termd == ~(i = Len(content) /\ open)
           rest == linesFrom(content, open, offset, i + 1, endpos + 1)
       IN  IF offset > endpos THEN rest
           ELSE IF offset <= start THEN <<L>> \o rest
           ELSE IF ~termd /\ offset = endpos THEN rest
           ELSE <<Fragment(L, endpos - offset)>> \o rest

\* what tailFile's handlers read and write, as one value
TailState ==
  [now |-> now, retryAfterMs |-> retryAfterMs, heap |-> heap,
   pendingEvents |-> pendingEvents, batchTimers |-> batchTimers,
   timerHeap |-> timerHeap, nextTimer |-> nextTimer,
   lastEventTime |-> lastEventTime, flights |-> flights, rendered |-> rendered,
   toolCallTimestamps |-> toolCallTimestamps, dropped |-> dropped,
   seenIdsSet |-> seenIdsSet, sessionMetadata |-> sessionMetadata, threw |-> FALSE]

SetTailState(st) ==
  /\ SetBatchState(st)
  /\ seenIdsSet' = st.seenIdsSet

\* addEvent without the hasSeenId test around it
addAlways(st, key, sessionKey, event) ==
  addEvent([st EXCEPT !.seenIdsSet = hasSeenIdSet(@, key)], sessionKey, event)

\* if (!hasSeenId(id)) addEvent(sessionKey, event)
addIfUnseen(st, key, sessionKey, event) ==
  IF hasSeenIdResult(st.seenIdsSet, key) THEN st
  ELSE addEvent([st EXCEPT !.seenIdsSet = hasSeenIdSet(@, key)], sessionKey, event)

\* const existing = sessionMetadata.get(sessionKey);
\* if (existing) existing.thinkingLevel = level
setThinkingLevel(st, sessionKey, level) ==
  IF st.sessionMetadata[sessionKey].exists
  THEN [st EXCEPT !.sessionMetadata[sessionKey].thinkingLevel = level]
  ELSE st

\* tailFile, thinking_level_change
onThinkingLevelChange(st, row, sessionKey, threadNumber) ==
  IF row.kind # "thinking_level_change" THEN st
  ELSE addIfUnseen(setThinkingLevel(st, sessionKey, thinkingLevelOf(row)), SeenKey("thinking_level", row.id), sessionKey,
                   Event("thinking_level", SeenKey("thinking_level", row.id),
                         sessionKey, threadNumber, row.timestamp, ""))

\* Map.prototype.set: a key already present keeps its place
mapSet(keys, k) == IF k \in Range(keys) THEN keys ELSE Append(keys, k)

\* tailFile, an assistant message with one toolCall item that has an id
onToolCall(st, row, sessionKey, threadNumber) ==
  IF row.kind # "toolCall" THEN st
  ELSE LET toolId == SeenKey("", row.id)
       IN  IF hasSeenIdResult(st.seenIdsSet, toolId) THEN st
           ELSE addEvent([st EXCEPT !.seenIdsSet = hasSeenIdSet(@, toolId),
                                    !.toolCallTimestamps = mapSet(@, toolId)],
                         sessionKey,
                         Event("toolCall", toolId, sessionKey, threadNumber,
                               row.timestamp, row.name))

\* events.find(e => e.id === toolCallId && ...) over every event ever created
findToolEventInHeap(st, groupKey, toolCallId) ==
  LET hits == {r \in 1..Len(st.heap) :
                 /\ st.heap[r].id = toolCallId
                 /\ st.heap[r].type \in {"toolCall", "tool_call"}}
  IN  IF hits = {} THEN 0 ELSE CHOOSE r \in hits : \A q \in hits : r <= q

\* pendingEvents.get(groupKey), then events.find(e => e.id === toolCallId && ...):
\* the reference of the first hit, 0 for undefined
findToolEvent(st, groupKey, toolCallId) ==
  LET events == st.pendingEvents[groupKey]
      hits == {i \in 1..Len(events) :
                 /\ st.heap[events[i]].id = toolCallId
                 /\ st.heap[events[i]].type \in {"toolCall", "tool_call"}}
  IN  IF hits = {} THEN 0 ELSE events[CHOOSE i \in hits : \A j \in hits : i <= j]

\* the update of toolEvent.data; 0 is falsy, an absent field is undefined
mergeToolResult(e, row) ==
  [e EXCEPT
     !.isError = row.isError,
     !.diffStats = IF row.diff # <<>> /\ e.name \in {"edit", "write"}
                   THEN parseDiffStats(row.diff) ELSE @,
     !.durationMs = IF row.durationMs # -1 /\ row.durationMs # 0 THEN row.durationMs
                    ELSE IF row.timestamp # 0 /\ e.timestamp # 0
                         THEN row.timestamp - e.timestamp
                         ELSE @]

\* tailFile, a message with role toolResult and a toolCallId
onToolResult(st, row, sessionKey, threadNumber) ==
  IF row.kind # "toolResult" THEN st
  ELSE LET toolCallId == SeenKey("", row.id)
           callInfo == toolCallId \in Range(st.toolCallTimestamps)
           toolEvent == findToolEvent(st, GroupKeyOf(sessionKey, threadNumber), toolCallId)
       IN  IF ~callInfo \/ toolEvent = 0 THEN st
           ELSE [st EXCEPT !.heap[toolEvent] = mergeToolResult(@, row)]

\* The text of a user message, as the sequence of its pieces: the markers the
\* cleanup looks for, whitespace, and words.
ImageUserText == "[Image] User text:"
ConversationInfo == "Conversation info (untrusted metadata)"
\* the three backquotes that open or close a block
Fence == "fence"
Space == " "
FourDots == "...."
\* String.prototype.length of a piece
PieceLength(piece) ==
  CASE piece = ImageUserText -> 18
    [] piece = ConversationInfo -> 38
    [] piece = Fence -> 3
    [] piece = Space -> 1
    [] piece = FourDots -> 4
    [] piece = "metadata" -> 8
    [] piece = "hi" -> 2
    [] piece = "hello!" -> 6
RECURSIVE TextLength(_)
TextLength(text) == IF text = <<>> THEN 0 ELSE PieceLength(Head(text)) + TextLength(Tail(text))

\* String.prototype.trim
RECURSIVE trimStart(_)
trimStart(text) ==
  IF text # <<>> /\ Head(text) = Space THEN trimStart(Tail(text)) ELSE text
RECURSIVE trimEnd(_)
trimEnd(text) ==
  IF text # <<>> /\ text[Len(text)] = Space THEN trimEnd(SubSeq(text, 1, Len(text) - 1))
  ELSE text
trim(text) == trimEnd(trimStart(text))

\* where the pieces of text equal to piece are
PlacesOf(text, piece) == {i \in 1..Len(text) : text[i] = piece}
Least(set) == CHOOSE i \in set : \A j \in set : i <= j
Greatest(set) == CHOOSE i \in set : \A j \in set : i >= j

\* tailFile, the text of a user message: what follows "[Image] User text:"
\* when something does; else, for a text with the conversation info marker,
\* the part after the last fence when it is worth showing, or nothing; else
\* the text as it is
cleanUserText(text) ==
  LET marks == {i \in PlacesOf(text, ImageUserText) : i < Len(text)}
      fences == PlacesOf(text, Fence)
      lastPart == trim(SubSeq(text, Greatest(fences) + 1, Len(text)))
  IN  IF marks # {} THEN trim(SubSeq(text, Least(marks) + 1, Len(text)))
      ELSE IF PlacesOf(text, ConversationInfo) = {} THEN text
      ELSE IF fences = {} THEN <<>>
      ELSE IF /\ lastPart # <<>>
              /\ PlacesOf(lastPart, "metadata") \cup PlacesOf(lastPart, ConversationInfo) = {}
              /\ lastPart # <<FourDots>>
              /\ TextLength(lastPart) > 5
      THEN lastPart
      ELSE <<>>

\* {"id":id,"timestamp":1,"message":{"role":"user","content":[{"type":"text","text":text}]}}
UserRow(id, text) == Row("user", 2, id, "", FALSE, -1, <<>>, 1) @@ [text |-> text]

\* tailFile, a message with role user: the event carries the cleaned text as
\* its preview
onUserMessage(st, row, sessionKey, threadNumber) ==
  IF row.kind # "user" THEN st
  ELSE addIfUnseen(st, SeenKey("user_message", row.id), sessionKey,
                   Event("user_message", SeenKey("user_message", row.id), sessionKey,
                         threadNumber, row.timestamp, "")
                     @@ [preview |-> cleanUserText(row.text)])

\* tailFile making an event of a line JSON.parse rejects
processRowBadCounts(st, row, sessionKey, threadNumber) ==
  IF row.kind = "bad"
  THEN addAlways(st, SeenKey("error", row.id), sessionKey,
                 Event("error", SeenKey("error", row.id), sessionKey, threadNumber,
                       row.timestamp, ""))
  ELSE onToolResult(
         onToolCall(
           onUserMessage(onThinkingLevelChange(st, row, sessionKey, threadNumber),
                         row, sessionKey, threadNumber),
           row, sessionKey, threadNumber),
         row, sessionKey, threadNumber)

\* tailFile, one line that is not blank, after newOffset was advanced
processRow(st, row, sessionKey, threadNumber) ==
  IF row.kind = "bad" THEN [st EXCEPT !.threw = TRUE]
  ELSE onToolResult(
         onToolCall(
           onUserMessage(onThinkingLevelChange(st, row, sessionKey, threadNumber),
                         row, sessionKey, threadNumber),
           row, sessionKey, threadNumber),
         row, sessionKey, threadNumber)

\* the toolCall events pending in the group of a tool-result line
PendingMatch(row, groupKey) ==
  IF row.kind # "toolResult" THEN {}
  ELSE {r \in Range(pendingEvents[groupKey]) :
          /\ heap[r].id = SeenKey("", row.id)
          /\ heap[r].type \in {"toolCall", "tool_call"}}

\* ------------------------------------------------------------ message.ts -
\* Texts are held as their lengths (String.prototype.length).

\* format.ts truncateText cutting at maxLen instead of maxLen - 3
truncateTextLate(text, maxLen) ==
  IF text = 0 THEN 0
  ELSE IF text <= maxLen THEN text
  ELSE maxLen + 3

\* format.ts truncateText: text.slice(0, maxLen - 3) + "..."
truncateText(text, maxLen) ==
  IF text = 0 THEN 0
  ELSE IF text <= maxLen THEN text
  ELSE (IF text < maxLen - 3 THEN text ELSE maxLen - 3) + 3

\* format.ts formatEvent, type user_message: null (0) for a preview that is
\* empty, blank or "....", else the line with time, sender and preview
TIME_AND_SENDER == 20
USER_PREVIEW_LENGTH == 300
userMessageLine(preview) ==
  IF preview = <<>> \/ trim(preview) = <<FourDots>> \/ trim(preview) = <<>>
  THEN 0
  ELSE TIME_AND_SENDER + truncateText(TextLength(preview), USER_PREVIEW_LENGTH)

\* decimal digits of a positive number
RECURSIVE Digits(_)
Digits(n) == IF n < 10 THEN 1 ELSE 1 + Digits(n \div 10)

\* `• … +${remaining} more`
MarkerLen(remaining) == 5 + Digits(remaining) + 5

\* message.ts:84 the room buildMessage keeps free below MAX_MESSAGE_LENGTH
Headroom == 50

\* lines.join("\n")
JoinLen(lines) ==
  LET sum[i \in 0..Len(lines)] == IF i = 0 THEN 0 ELSE sum[i - 1] + lines[i]
  IN  IF lines = <<>> THEN 0 ELSE sum[Len(lines)] + Len(lines) - 1

\* the loop of buildMessage over the events from the i-th on; formatted[i] is
\* formatEvent(events[i]), 0 for null or ""; shown tells which event each
\* event line pushed from here on was made of, in the order of the lines
RECURSIVE buildLines(_, _, _, _)
buildLines(formatted, i, lines, totalLen) ==
  IF i > Len(formatted)
  THEN [lines |-> lines, leftOut |-> FALSE, marker |-> FALSE, remaining |-> 0,
        shown |-> <<>>]
  ELSE IF formatted[i] = 0 THEN buildLines(formatted, i + 1, lines, totalLen)
  ELSE IF totalLen + formatted[i] + 1 > MAX_MESSAGE_LENGTH - Headroom
       THEN LET remaining == Len(formatted) - Len(lines) + 1
            IN  IF remaining > 0
                THEN [lines |-> Append(lines, MarkerLen(remaining)), leftOut |-> TRUE,
                      marker |-> TRUE, remaining |-> remaining, shown |-> <<>>]
                ELSE [lines |-> lines, leftOut |-> TRUE, marker |-> FALSE,
                      remaining |-> remaining, shown |-> <<>>]
       ELSE LET rest == buildLines(formatted, i + 1, Append(lines, formatted[i]),
                                   totalLen + formatted[i] + 1)
            IN  [rest EXCEPT !.shown = <<i>> \o @]

\* message.ts:67-68 `lastHeaderTime.get(groupKey) || 0` and the test on it;
\* without an entry the difference is Date.now() itself, over any interval
showHeaderAt(last, t) == last = -1 \/ t - last >= HEADER_INTERVAL_MS

\* lastHeaderTime.set(groupKey, now) whatever showHeader says
lastHeaderAfterAlways(last, showHeader, t) == t

\* message.ts:70-72 if (showHeader) lastHeaderTime.set(groupKey, now)
lastHeaderAfter(last, showHeader, t) == IF showHeader THEN t ELSE last

\* buildMessage, given the length of the header it composed
buildMessage(showHeader, header, formatted) ==
  LET out == IF showHeader THEN buildLines(formatted, 1, <<header>>, header + 1)
             ELSE buildLines(formatted, 1, <<>>, 0)
  IN  [showHeader |-> showHeader, header |-> header, formatted |-> formatted,
       lines |-> out.lines, leftOut |-> out.leftOut, marker |-> out.marker,
       remaining |-> out.remaining, len |-> JoinLen(out.lines),
       groupKey |-> GroupKeyOf("", ""), afterPlain |-> FALSE]

\* no buildMessage call yet
NotBuilt == [showHeader |-> FALSE, header |-> 0, formatted |-> <<>>, lines |-> <<>>,
             leftOut |-> FALSE, marker |-> FALSE, remaining |-> 0, len |-> -1,
             groupKey |-> GroupKeyOf("", ""), afterPlain |-> FALSE]

\* ------------------------------------------------------------ actions ---

\* addEvent called with a new event
AddEvent ==
  /\ Len(heap) < MaxEvents
  /\ \E s \in SessionKeys, t \in ThreadNumbers :
       SetBatchState(addEvent(BatchState, s, Event("error", "a", s, t, 1, "")))
  /\ UNCHANGED <<restVars, now, retryAfterMs, delivered, lastSendAt, seenVars, fileVars, tailVars>>

\* a flush timer expires: the callback of scheduleFlush's setTimeout
TimerFire ==
  /\ \E t \in timerHeap :
       /\ now >= t.due
       /\ SetBatchState(flushEvents([BatchState EXCEPT !.timerHeap = @ \ {t}], t.key))
  /\ UNCHANGED <<restVars, now, retryAfterMs, delivered, lastSendAt, seenVars, fileVars, tailVars>>

\* flushEvents after its sleep: _sendMessage(message)
SendStep ==
  /\ \E f \in flights :
       /\ now >= f.due
       /\ flights' = flights \ {f}
       /\ lastSendAt' = now
       /\ delivered' = [r \in DOMAIN delivered |->
                          IF r \in Range(f.batch) THEN delivered[r] + 1 ELSE delivered[r]]
  /\ UNCHANGED <<restVars, now, retryAfterMs, heap, pendingEvents, batchTimers, timerHeap,
                 nextTimer, lastEventTime, rendered, dropped, toolCallTimestamps,
                 seenVars, fileVars, tailVars>>

FlushAll ==
  /\ SetBatchState(flushAllBatches(BatchState))
  /\ UNCHANGED <<restVars, now, retryAfterMs, delivered, lastSendAt, seenVars, fileVars, tailVars>>

\* the setInterval callback of setMessageFunctions
Cleanup ==
  /\ SetBatchState(cleanupStaleData(BatchState))
  /\ UNCHANGED <<restVars, now, retryAfterMs, delivered, lastSendAt, seenVars, fileVars, tailVars>>

\* config.ts setRetryAfter(ms), called by a sink that was told to back off
SetRetryAfter ==
  /\ retryAfterMs <= now
  /\ \E n \in 1..2 : retryAfterMs' = now + n
  /\ UNCHANGED <<restVars, now, heap, pendingEvents, batchTimers, timerHeap, nextTimer,
                 lastEventTime, flights, rendered, delivered, dropped, lastSendAt,
                 toolCallTimestamps, seenVars, fileVars, tailVars>>

\* time passes; a due timer runs before the clock moves on
Tick ==
  /\ now < MaxTime
  /\ \A t \in timerHeap : t.due > now
  /\ \A f \in flights : f.due > now
  /\ now' = now + 1
  /\ UNCHANGED <<restVars, retryAfterMs, heap, pendingEvents, batchTimers, timerHeap, nextTimer,
                 lastEventTime, flights, rendered, delivered, dropped, lastSendAt,
                 toolCallTimestamps, seenVars, fileVars, tailVars>>

\* ------------------------------------------------------------ daemon.ts --
\* the single-file daemon; its clock counts seconds here, RATE_LIMIT_MS and
\* BATCH_WINDOW_MS are that many seconds

SendMethods == {"webhook", "fallback", "auto"}

\* the daemon after its module body ran: nothing pending, no timer,
\* state.lastSend so long ago that the first send is not held back
IdleDaemon(sendMethod, webhookUrl) ==
  [sendMethod |-> sendMethod, webhookUrl |-> webhookUrl, pendingEvents |-> <<>>,
   timers |-> {}, batchTimer |-> 0, nextTimer |-> 1, isFlushing |-> FALSE,
   retryAfterMs |-> 0, lastSend |-> 0 - RATE_LIMIT_MS, entries |-> <<>>,
   awaiting |-> <<>>, nextId |-> 1, calls |-> {}, cooled |-> {}, requeued |-> {}]

\* canSend without its assignment to state.lastSend
canSend(d, t) == ~(t < d.retryAfterMs) /\ ~(t - d.lastSend < RATE_LIMIT_MS)

\* pendingEvents.get(groupKey).push(...events), the entry made when missing
pushEvents(pending, groupKey, events) ==
  IF \E i \in 1..Len(pending) : pending[i].key = groupKey
  THEN [i \in 1..Len(pending) |->
          IF pending[i].key = groupKey
          THEN [pending[i] EXCEPT !.events = @ \o events]
          ELSE pending[i]]
  ELSE Append(pending, [key |-> groupKey, events |-> events])

\* sendMessage in auto mode calling the fallback whatever the webhook answered
fallbackInvokedAlways(sendMethod, success) == sendMethod # "webhook"

\* sendMessage: is sendViaFallback called, given what sendViaWebhook returned
fallbackInvoked(sendMethod, success) ==
  \/ sendMethod = "fallback"
  \/ sendMethod \notin {"webhook", "fallback"} /\ ~success

\* sendMessage(text) returns: the sinks it used for the batch behind the text
sendMessageDone(d, batch, success, t) ==
  [d EXCEPT !.calls = @ \cup {[batch |-> batch, at |-> t,
                               webhook |-> d.sendMethod # "fallback",
                               ok |-> d.sendMethod # "fallback" /\ success,
                               cli |-> fallbackInvoked(d.sendMethod, success)]}]

\* the end of flushBatch: a timer for what is pending again
flushBatchEnd(d, t) ==
  IF d.pendingEvents = <<>> THEN [d EXCEPT !.isFlushing = FALSE]
  ELSE [d EXCEPT !.isFlushing = FALSE,
                 !.timers = @ \cup {[id |-> d.nextTimer, due |-> t + RATE_LIMIT_MS]},
                 !.batchTimer = d.nextTimer,
                 !.nextTimer = @ + 1]

\* the loop of flushBatch over the detached entries, up to a fetch it awaits
RECURSIVE flushBatchLoop(_, _, _)
flushBatchLoop(d, entries, t) ==
  IF entries = <<>> THEN flushBatchEnd(d, t)
  ELSE LET e == Head(entries)
       IN  IF e.events = <<>> THEN flushBatchLoop(d, Tail(entries), t)
           ELSE IF ~canSend(d, t)
           THEN flushBatchLoop(
                  [d EXCEPT !.pendingEvents = pushEvents(@, e.key, e.events),
                            !.requeued = @ \cup Range(e.events),
                            !.cooled = IF t < d.retryAfterMs
                                       THEN @ \cup Range(e.events) ELSE @],
                  Tail(entries), t)
           ELSE IF d.sendMethod = "fallback" \/ ~d.webhookUrl
           THEN flushBatchLoop(sendMessageDone([d EXCEPT !.lastSend = t],
                                               e.events, FALSE, t),
                               Tail(entries), t)
           ELSE [d EXCEPT !.lastSend = t, !.awaiting = <<e.events>>,
                          !.entries = Tail(entries)]

flushBatch(d, t) ==
  IF d.isFlushing THEN d
  ELSE IF d.pendingEvents = <<>> THEN [d EXCEPT !.batchTimer = 0]
  ELSE flushBatchLoop([d EXCEPT !.isFlushing = TRUE, !.batchTimer = 0,
                                !.pendingEvents = <<>>],
                      d.pendingEvents, t)

getTotalPendingEvents(d) ==
  LET sum[i \in 0..Len(d.pendingEvents)] ==
        IF i = 0 THEN 0 ELSE Len(d.pendingEvents[i].events) + sum[i - 1]
  IN  sum[Len(d.pendingEvents)]

\* daemon.ts scheduleFlush; clearTimeout(batchTimer) disarms that timer only
daemonScheduleFlush(d, t) ==
  LET cleared == [d EXCEPT !.timers = {tm \in @ : tm.id # d.batchTimer}]
  IN  IF getTotalPendingEvents(d) >= MAX_BATCH_SIZE
      THEN flushBatch([cleared EXCEPT !.batchTimer = 0], t)
      ELSE [cleared EXCEPT
              !.timers = @ \cup {[id |-> d.nextTimer, due |-> t + BATCH_WINDOW_MS]},
              !.batchTimer = d.nextTimer,
              !.nextTimer = @ + 1]

\* daemon.ts addEvent; the event is its number
daemonAddEvent(d, groupKey, t) ==
  daemonScheduleFlush([d EXCEPT !.pendingEvents = pushEvents(@, groupKey, <<d.nextId>>),
                                !.nextId = @ + 1], t)

\* sendViaWebhook after fetch: the cooldown a 429 sets, from Retry-After
webhookCooldown(d, status, retryAfter, t) ==
  IF status = 429 THEN [d EXCEPT !.retryAfterMs = t + retryAfter] ELSE d

\* main has returned: PID file written, state loaded, files scanned, watchers on
Started ==
  [pc |-> "running", exitCode |-> -1, found |-> "none", pidFile |-> "own",
   stateLoaded |-> TRUE, scanned |-> TRUE, watching |-> TRUE]

\* the process runs, its watchers deliver change notifications
NotShuttingDown ==
  [shuttingDown |-> FALSE, watching |-> TRUE, awaits |-> {}, refs |-> {},
   exited |-> FALSE]

\* JSON.stringify(state, null, 2) reaches the disk in this many pieces
NumParts == 2

\* no file at a path
NoFile == [exists |-> FALSE, snap |-> <<>>, parts |-> 0]

\* a fresh state directory; mode tells which saveState the build has: "rename"
\* writes STATE_FILE.tmp and renames it, "direct" writes STATE_FILE itself
NoDisk(mode) ==
  [mode |-> mode, pc |-> "idle", file |-> NoFile, tmp |-> NoFile, prev |-> NoFile]

\* the saveStateAtomic calls
MaxSavers == 4
Savers == 1..MaxSavers

\* stateLock = false, stateQueue = []; no saveStateAtomic call yet. asked and
\* granted keep the order of the calls and of the promises resolved
Unlocked ==
  [stateLock |-> FALSE, stateQueue |-> <<>>, pc |-> [c \in Savers |-> "idle"],
   asked |-> <<>>, granted |-> <<>>, failed |-> {}]

\* the state modules: part_009 renames a temporary file, state.ts writes in place
SaveModes == {"rename", "direct"}

\* nothing saved yet
NoSave == disk = NoDisk("rename")

\* no tailFile call has failed
NoReadError ==
  [failed |-> FALSE, file |-> CHOOSE f \in Files : TRUE, stored |-> -1, newOffset |-> -1,
   left |-> 0, again |-> FALSE]

\* sessionMetadata has not been written
NoMetaCall ==
  [op |-> "none", filename |-> <<>>, sessionKey |-> <<>>, scanRows |-> <<>>,
   scanMaps |-> <<>>, rows |-> <<>>, maps |-> <<>>, loads |-> 0]

\* no sessions.json names the sessions
NoSessionsJson == sessionMetadata = [k \in SessionKeys |-> NoMetadata]

InitCore ==
  /\ now = 0
  /\ retryAfterMs = 0
  /\ heap = <<>>
  /\ pendingEvents = [k \in GroupKeys |-> <<>>]
  /\ batchTimers = [k \in GroupKeys |-> 0]
  /\ timerHeap = {}
  /\ nextTimer = 1
  /\ lastEventTime = [k \in GroupKeys |-> -1]
  /\ flights = {}
  /\ rendered = {}
  /\ delivered = [r \in 1..MaxEvents |-> 0]
  /\ dropped = {}
  /\ lastSendAt = -1
  /\ lastCall = [id |-> SeenKey("", ""), result |-> FALSE, inserts |-> 0]
  /\ files = [f \in Files |-> <<>>]
  /\ openTail = [f \in Files |-> FALSE]
  /\ offsets = [f \in Files |-> -1]
  /\ passes = <<>>
  /\ toolCallTimestamps = <<>>
  /\ lastLine = [kind |-> "none", id |-> "", threw |-> FALSE, matched |-> {}]
  /\ resultFor = [r \in 1..MaxEvents |-> NoRow]
  /\ lastPass = [f \in Files |->
                   [done |-> FALSE, solo |-> FALSE, shape |-> <<0, FALSE>>]]
  /\ firstSize = [f \in Files |-> -1]
  /\ lastHeaderTime = [k \in GroupKeys |-> -1]
  /\ built = NotBuilt
  /\ headerLog = [k \in GroupKeys |-> -1]
  /\ plainLog = [k \in GroupKeys |-> FALSE]
  /\ sent = [text |-> -1, handed |-> -1]
  /\ shutdown = NotShuttingDown
  /\ stateFile = [written |-> FALSE, offsets |-> [f \in Files |-> -1], seenIds |-> <<>>]
  /\ lock = Unlocked
  /\ readError = NoReadError

\* no pure function has been called
InitRest ==
  /\ InitCore
  /\ NoSave
  /\ NoSessionsJson
  /\ diffCall = [diff |-> <<>>, stats |-> NoStats, called |-> FALSE]
  /\ metaCall = NoMetaCall

\* main got past its check: CONFIG has a channel and a targetId
Configured == config = [channel |-> TRUE, targetId |-> TRUE]

\* nothing loaded: no state file yet
Init ==
  /\ InitRest
  /\ Configured
  /\ startup = Started
  /\ daemon = IdleDaemon("auto", FALSE)
  /\ seenIdsSet = <<>>
  /\ insertLog = <<>>

InitBatch ==
  /\ Init
  /\ debugProcessAll = FALSE

NextBatch ==
  \/ AddEvent
  \/ TimerFire
  \/ SendStep
  \/ FlushAll
  \/ Cleanup
  \/ SetRetryAfter
  \/ Tick

SpecBatch == InitBatch /\ [][NextBatch]_vars

\* ------------------------------------------------------------ tail actions

FileShape(f) == <<Len(files[f]), openTail[f]>>
PassesOn(f) == {i \in 1..Len(passes) : passes[i].file = f}
LinesWritten == LET sum[fs \in SUBSET Files] ==
                      IF fs = {} THEN 0
                      ELSE LET f == CHOOSE x \in fs : TRUE
                           IN  Len(files[f]) + sum[fs \ {f}]
                IN  sum[Files]
RowIdsWritten == UNION {{files[f][i].id : i \in 1..Len(files[f])} : f \in Files}
RecordsWritten == Cardinality(RowIdsWritten \ {""})

\* a writer appends one line to a session file, with or without its newline yet
WriteLine(f, row, terminated) ==
  /\ LinesWritten < MaxLines
  /\ ~openTail[f]
  /\ terminated \/ row.len > 0
  /\ files' = [files EXCEPT ![f] = Append(@, row)]
  /\ openTail' = [openTail EXCEPT ![f] = ~terminated]
  /\ UNCHANGED <<restVars, batchVars, seenVars, tailVars>>

\* the writer ends the line it left open
WriteNewline ==
  /\ \E f \in Files :
       /\ openTail[f]
       /\ openTail' = [openTail EXCEPT ![f] = FALSE]
  /\ UNCHANGED <<restVars, files, batchVars, seenVars, tailVars>>

\* the lines a session log gets: records with ids of their own, and blank lines
AppendLog ==
  \E f \in Files, terminated \in BOOLEAN :
    \/ WriteLine(f, BlankRow(0), TRUE)
    \/ /\ RecordsWritten < Len(RowIdSeq)
       /\ WriteLine(f, LevelRow(RowIdSeq[RecordsWritten + 1]), terminated)

\* tailFile is called while fewer than `limit` calls are in progress, and stat()
\* answers; a call that finds the file over MAX_FILE_SIZE returns at once
StartTail(limit) ==
  /\ Len(passes) < limit
  /\ \E f \in Files :
       /\ ~(FileSize(files[f], openTail[f]) > MAX_FILE_SIZE)
       /\ passes' = [i \in 1..Len(passes) |->
                       IF passes[i].file = f THEN [passes[i] EXCEPT !.solo = FALSE]
                       ELSE passes[i]]
                    \o <<[file |-> f, pc |-> "stat", size |-> IF offsets[f] = -1
                                   THEN FileSize(files[f], openTail[f]) ELSE 0,
                          offset |-> -1, lines |-> <<>>, newOffset |-> -1, bytes |-> 0,
                          added |-> 0, solo |-> PassesOn(f) = {},
                          shape |-> FileShape(f),
                          second |-> /\ PassesOn(f) = {}
                                     /\ lastPass[f].done
                                     /\ lastPass[f].solo
                                     /\ lastPass[f].shape = FileShape(f)]>>
  /\ UNCHANGED <<restVars, batchVars, seenVars, fileVars, debugProcessAll, offsets,
                 lastLine, resultFor, lastPass, firstSize, metaVars>>

\* the first-encounter offset that starts at the beginning whatever the mode
firstOffsetZero(debug, size) == 0

\* watcher.ts:56-62 the offset of a file that has none: 0 with
\* SESSION_AUDIT_DEBUG_PROCESS_ALL, else the size stat gave
firstOffset(debug, size) == IF debug THEN 0 ELSE size

\* a watch callback (or scanAllFiles) calls tailFile, whatever is in progress
TailStart == StartTail(MaxPasses)

\* a watch callback calls tailFile after the calls before it have returned
TailStartIdle == StartTail(1)

\* tailFile after `await stat`: the first-encounter offset, then the stream is
\* opened at the stored offset and reads to the end of the file
TailOpen ==
  /\ \E i \in 1..Len(passes) :
       LET p == passes[i]
           f == p.file
           first == firstOffset(debugProcessAll, p.size)
           offset == IF offsets[f] = -1 THEN first ELSE offsets[f]
           size == FileSize(files[f], openTail[f])
       IN  /\ p.pc = "stat"
           /\ offsets' = [offsets EXCEPT ![f] = offset]
           /\ firstSize' = IF offsets[f] = -1 THEN [firstSize EXCEPT ![f] = p.size]
                           ELSE firstSize
           /\ passes' = [passes EXCEPT ![i] =
                           [p EXCEPT !.pc = "lines", !.offset = offset,
                                     !.newOffset = offset,
                                     !.bytes = IF size > offset THEN size - offset ELSE 0,
                                     !.lines = linesFrom(files[f], openTail[f], offset, 1, 0)]]
  /\ UNCHANGED <<restVars, batchVars, seenVars, fileVars, debugProcessAll,
                 lastLine, resultFor, lastPass, metaVars>>

\* one turn of `for await (const line of rl)`
TailLine ==
  /\ \E i \in 1..Len(passes) :
       LET p == passes[i]
           row == Head(p.lines)
           st == processRow(TailState, row, getBaseSessionId(p.file), getThreadNumber(p.file))
           matched == PendingMatch(row, GroupKeyOf(getBaseSessionId(p.file),
                                                   getThreadNumber(p.file)))
       IN  /\ p.pc = "lines"
           /\ p.lines # <<>>
           /\ IF row.kind = "blank"
              THEN /\ passes' = [passes EXCEPT ![i].lines = Tail(@)]
                   /\ UNCHANGED <<heap, pendingEvents, batchTimers, timerHeap, nextTimer,
                                  lastEventTime, flights, rendered, seenIdsSet,
                                  toolCallTimestamps, dropped, lastLine, resultFor,
                                  sessionMetadata>>
              ELSE /\ Len(st.heap) <= MaxEvents
                   /\ lastLine' = [kind |-> row.kind, id |-> row.id, threw |-> st.threw,
                                   matched |-> matched]
                   /\ resultFor' = [r \in 1..MaxEvents |->
                                      IF r \in matched THEN row ELSE resultFor[r]]
                   /\ passes' = [passes EXCEPT ![i].lines = Tail(@),
                                               ![i].newOffset = @ + row.len + 1,
                                               ![i].added = IF p.second
                                                            THEN @ + Len(st.heap) - Len(heap)
                                                            ELSE 0]
                   /\ SetTailState(st)
                   /\ sessionMetadata' = st.sessionMetadata
  /\ UNCHANGED <<restVars, now, retryAfterMs, delivered, lastSendAt, insertLog, lastCall, fileVars,
                 debugProcessAll, offsets, lastPass, firstSize, readError>>

\* the loop ended: state.offsets[offsetKey] = newOffset
TailStore ==
  /\ \E i \in 1..Len(passes) :
       LET p == passes[i]
       IN  /\ p.pc = "lines"
           /\ p.lines = <<>>
           /\ offsets' = [offsets EXCEPT ![p.file] = p.newOffset]
           /\ lastPass' = [lastPass EXCEPT ![p.file] =
                             [done |-> TRUE, solo |-> p.solo, shape |-> p.shape]]
           /\ passes' = SubSeq(passes, 1, i - 1) \o SubSeq(passes, i + 1, Len(passes))
  /\ UNCHANGED <<restVars, batchVars, seenVars, fileVars, debugProcessAll, lastLine,
                 resultFor, firstSize, metaVars>>

InitTail ==
  /\ Init
  /\ debugProcessAll = FALSE

NextTail ==
  \/ AppendLog
  \/ WriteNewline
  \/ TailStart
  \/ TailOpen
  \/ TailLine
  \/ TailStore

SpecTail == InitTail /\ [][NextTail]_vars

\* ------------------------------------------------------------ tool lines --

ToolNames == {"edit", "read"}
\* the tool results written, as <<isError, details.durationMs, details.diff>>:
\* durationMs 5, absent, 0; diff "+a\n-b\n+c", absent, "+++\n c"
ResultShapes ==
  {<<TRUE, 5, <<<<"+", "a">>, <<"-", "b">>, <<"+", "c">>>>>>,
   <<FALSE, -1, <<>>>>,
   <<FALSE, 0, <<<<"+", "+", "+">>, <<" ", "c">>>>>>,
   <<TRUE, -1, <<<<"+", "a">>, <<"-", "b">>, <<"+", "c">>>>>>}

KindsWritten(kind) ==
  UNION {{files[f][i].id : i \in {j \in 1..Len(files[f]) : files[f][j].kind = kind}} :
           f \in Files}

\* the lines of a session with tool use: calls with ids of their own, at most
\* one result per id, and other records in between
AppendToolLog ==
  \E f \in Files :
    \/ WriteLine(f, LevelRow(RowIdSeq[1]), TRUE)
    \/ /\ KindsWritten("toolCall") = {}
       /\ \E name \in ToolNames : WriteLine(f, ToolCallRow(ToolIdSeq[1], name), TRUE)
    \/ \E id \in ToolIds \ KindsWritten("toolResult"), shape \in ResultShapes :
         WriteLine(f, ToolResultRow(id, shape[1], shape[2], shape[3]), TRUE)

\* SESSION_AUDIT_DEBUG_PROCESS_ALL=true: files are read from their first byte
InitMerge ==
  /\ Init
  /\ debugProcessAll = TRUE

NextMerge ==
  \/ AppendToolLog
  \/ TailStartIdle
  \/ TailOpen
  \/ TailLine
  \/ TailStore
  \/ TimerFire
  \/ SendStep
  \/ Tick

SpecMerge == InitMerge /\ [][NextMerge]_vars

\* ------------------------------------------------------------ seen ids ---

\* what loadState can find in the state file: identifiers without repetition,
\* as saveState wrote them, possibly under a larger maxSeenIds than today's
LoadedSeenIds ==
  {s \in UNION {[1..n -> Ids] : n \in 0..(MAX_SEEN_IDS + 1)} :
     \A i, j \in 1..Len(s) : i # j => s[i] # s[j]}

\* loadState: seenIdsSet = new Set(state.seenIds)
InitSeen ==
  /\ InitRest
  /\ Configured
  /\ startup = Started
  /\ daemon = IdleDaemon("auto", FALSE)
  /\ debugProcessAll = FALSE
  /\ seenIdsSet \in LoadedSeenIds
  /\ insertLog = seenIdsSet

\* hasSeenId(id)
HasSeenId ==
  /\ \E id \in Ids :
       LET result == hasSeenIdResult(seenIdsSet, id)
       IN  /\ result \/ lastCall.inserts < MaxInserts
           /\ seenIdsSet' = hasSeenIdSet(seenIdsSet, id)
           /\ insertLog' = IF result THEN insertLog ELSE Append(insertLog, id)
           /\ lastCall' = [id |-> id, result |-> result,
                           inserts |-> lastCall.inserts + (IF result THEN 0 ELSE 1)]
  /\ UNCHANGED <<restVars, batchVars, fileVars, tailVars>>

NextSeen == HasSeenId

SpecSeen == InitSeen /\ [][NextSeen]_vars

\* ------------------------------------------------------------ messages ---

\* lengths of the header line: short names, and a project or model name of
\* some 1650 characters
HeaderLens == {20, 1695}
\* lengths of formatEvent's result; 0: null
FormattedLens == {0, 40, 1640}
\* lengths of the texts sendMessage is called with
TextLens == {0, 1700, 1701, 5000}

\* buildMessage(groupKey, events) for a batch flushEvents detached from a
\* session without threads
BuildMessage ==
  /\ \E g \in {GroupKeyOf(s, "") : s \in SessionKeys}, header \in HeaderLens,
        n \in 1..MAX_BATCH_SIZE :
       \E formatted \in [1..n -> FormattedLens] :
         LET showHeader == showHeaderAt(lastHeaderTime[g], now)
         IN  /\ lastHeaderTime' =
                  [lastHeaderTime EXCEPT ![g] = lastHeaderAfter(@, showHeader, now)]
             /\ built' = [buildMessage(showHeader, header, formatted)
                            EXCEPT !.groupKey = g, !.afterPlain = plainLog[g]]
             /\ headerLog' = IF showHeader THEN [headerLog EXCEPT ![g] = now]
                             ELSE headerLog
             /\ plainLog' = [plainLog EXCEPT ![g] = ~showHeader]
  /\ UNCHANGED <<moreVars, batchVars, seenVars, fileVars, tailVars, config, sent, shutdown, daemon, startup>>

\* sendMessage(text)
SendMessage ==
  /\ \E text \in (TextLens \cup {built.len}) \ {-1} :
       IF ~config.channel \/ ~config.targetId
       THEN UNCHANGED sent
       ELSE sent' = [text |-> text, handed |-> truncateText(text, MAX_MESSAGE_LENGTH)]
  /\ UNCHANGED <<moreVars, batchVars, seenVars, fileVars, tailVars, config, lastHeaderTime, built,
                 headerLog, plainLog, shutdown, daemon, startup>>

InitMessage ==
  /\ InitRest
  /\ startup = Started
  /\ daemon = IdleDaemon("auto", FALSE)
  /\ seenIdsSet = <<>>
  /\ insertLog = <<>>
  /\ debugProcessAll = FALSE
  /\ config \in [channel : BOOLEAN, targetId : BOOLEAN]

NextMessage ==
  \/ BuildMessage
  \/ SendMessage
  \/ Tick

SpecMessage == InitMessage /\ [][NextMessage]_vars


\* ------------------------------------------------------------ shutdown ---

\* the continuation of gracefulShutdown is due: every flushEvents promise that
\* flushAllBatches collected has settled, so Promise.all resolves
DrainDue ==
  /\ shutdown.shuttingDown
  /\ ~shutdown.exited
  /\ shutdown.awaits \cap flights = {}

\* what the process does while it lives; the continuation of an await that has
\* settled runs before the next timer or I/O callback
Alive == ~shutdown.exited /\ ~DrainDue

\* a watcher's callback: fs.watch reports a change and tailFile is called
Notify == Alive /\ shutdown.watching /\ TailStartIdle

\* a session writes one complete record to its log
AppendRecord ==
  /\ RecordsWritten < Len(RowIdSeq)
  /\ \E f \in Files : WriteLine(f, LevelRow(RowIdSeq[RecordsWritten + 1]), TRUE)

\* SIGTERM or SIGINT: gracefulShutdown up to `await flushAllBatches()`;
\* stopWatcher closes the watchers
Signal ==
  /\ Alive
  /\ ~shutdown.shuttingDown
  /\ LET st == flushAllBatches(BatchState)
     IN  /\ SetBatchState(st)
         /\ shutdown' = [shuttingDown |-> TRUE, watching |-> FALSE,
                         awaits |-> st.flights \ flights,
                         refs |-> UNION {Range(pendingEvents[k]) : k \in GroupKeys},
                         exited |-> FALSE]
  /\ UNCHANGED <<moreVars, msgVars, daemon, startup, now, retryAfterMs, delivered, lastSendAt, seenVars,
                 fileVars, tailVars>>

\* gracefulShutdown after the await: saveStateAtomic, process.exit(0)
Drained ==
  /\ DrainDue
  /\ shutdown' = [shutdown EXCEPT !.exited = TRUE]
  /\ UNCHANGED <<moreVars, msgVars, daemon, startup, batchVars, seenVars, fileVars, tailVars>>

InitShutdown ==
  /\ Init
  /\ debugProcessAll = TRUE

NextShutdown ==
  \/ Alive /\ AppendRecord
  \/ Notify
  \/ Alive /\ TailOpen
  \/ Alive /\ TailLine
  \/ Alive /\ TailStore
  \/ Alive /\ TimerFire
  \/ Alive /\ SendStep
  \/ Alive /\ Tick
  \/ Signal
  \/ Drained

SpecShutdown == InitShutdown /\ [][NextShutdown]_vars

\* ------------------------------------------------------------ daemon ------

\* what fetch resolves with: a status (0: it rejected) and a Retry-After header
Statuses == {200, 429, 500, 0}
RetryAfters == 1..2

\* tailFile found an event
DaemonAddEvent ==
  /\ daemon.nextId <= MaxEvents
  /\ \E groupKey \in GroupKeys : daemon' = daemonAddEvent(daemon, groupKey, now)
  /\ UNCHANGED <<moreVars, msgVars, shutdown, startup, batchVars, seenVars, fileVars, tailVars>>

\* a timer of scheduleFlush or flushBatch expires
DaemonTimer ==
  /\ \E tm \in daemon.timers :
       /\ now >= tm.due
       /\ daemon' = flushBatch([daemon EXCEPT !.timers = @ \ {tm}], now)
  /\ UNCHANGED <<moreVars, msgVars, shutdown, startup, batchVars, seenVars, fileVars, tailVars>>

\* fetch settles: the rest of sendViaWebhook and sendMessage, then flushBatch
\* goes on with its entries
DaemonResponse ==
  /\ daemon.awaiting # <<>>
  /\ \E status \in Statuses, retryAfter \in RetryAfters :
       /\ status = 429 \/ retryAfter = 1
       /\ daemon' = flushBatchLoop(
                      sendMessageDone(
                        [webhookCooldown(daemon, status, retryAfter, now)
                           EXCEPT !.awaiting = <<>>, !.entries = <<>>],
                        daemon.awaiting[1], status = 200, now),
                      daemon.entries, now)
  /\ UNCHANGED <<moreVars, msgVars, shutdown, startup, batchVars, seenVars, fileVars, tailVars>>

InitDaemon ==
  /\ InitRest
  /\ Configured
  /\ startup = Started
  /\ seenIdsSet = <<>>
  /\ insertLog = <<>>
  /\ debugProcessAll = FALSE
  /\ \E sendMethod \in SendMethods, webhookUrl \in BOOLEAN :
       daemon = IdleDaemon(sendMethod, webhookUrl)

NextDaemon ==
  \/ DaemonAddEvent
  \/ DaemonTimer
  \/ DaemonResponse
  \/ Tick

SpecDaemon == InitDaemon /\ [][NextDaemon]_vars

\* ------------------------------------------------------------ startup ----

\* the PID file main finds: none, one naming a live process, one naming a dead one
PidFiles == {"none", "running", "stale"}

\* state.ts checkSingleInstance, which removes the PID file and says yes
checkSingleInstanceAlways(pidFile) == TRUE

\* checkSingleInstance: false when the PID file names a running process
checkSingleInstance(pidFile) == pidFile # "running"

\* process.exit(code) out of main
Exit(code) == startup' = [startup EXCEPT !.pc = "exited", !.exitCode = code]

\* main up to `await scanAllFiles()`; loadState reads the seen ids off the state file
Main ==
  /\ startup.pc = "main"
  /\ IF ~config.channel \/ ~config.targetId
     THEN Exit(1) /\ UNCHANGED seenVars
     ELSE IF ~checkSingleInstance(startup.pidFile)
     THEN Exit(1) /\ UNCHANGED seenVars
     ELSE /\ startup' = [startup EXCEPT !.pc = "scanning", !.pidFile = "own",
                                        !.stateLoaded = TRUE]
          /\ seenIdsSet' \in LoadedSeenIds
          /\ insertLog' = seenIdsSet'
          /\ UNCHANGED lastCall
  /\ UNCHANGED <<moreVars, msgVars, shutdown, daemon, batchVars, fileVars, tailVars>>

\* scanAllFiles: `await tailFile(file, agentName)` for a session file that is
\* there, one file after the other
ScanFile ==
  /\ startup.pc = "scanning"
  /\ ~startup.scanned
  /\ \A f \in Files : offsets[f] = -1
  /\ TailStartIdle

\* scanAllFiles has returned; startWatcher
StartWatcher ==
  /\ startup.pc = "scanning"
  /\ passes = <<>>
  /\ startup' = [startup EXCEPT !.pc = "running", !.scanned = TRUE, !.watching = TRUE]
  /\ UNCHANGED <<moreVars, msgVars, shutdown, daemon, batchVars, seenVars, fileVars, tailVars>>

\* a watcher's callback after startWatcher
Watch == startup.watching /\ TailStartIdle

\* a session writes to its log, whether the daemon lives or not
Write == AppendRecord

\* a tailFile call goes on
TailStep == startup.pc \in {"scanning", "running"} /\ (TailOpen \/ TailLine \/ TailStore)

InitStartup ==
  /\ InitRest
  /\ seenIdsSet = <<>>
  /\ insertLog = <<>>
  /\ debugProcessAll = FALSE
  /\ daemon = IdleDaemon("auto", FALSE)
  /\ config \in [channel : BOOLEAN, targetId : BOOLEAN]
  /\ \E pidFile \in PidFiles :
       startup = [pc |-> "main", exitCode |-> -1, found |-> pidFile,
                  pidFile |-> pidFile, stateLoaded |-> FALSE, scanned |-> FALSE, watching |-> FALSE]

NextStartup ==
  \/ Main
  \/ ScanFile
  \/ StartWatcher
  \/ Watch
  \/ Write
  \/ TailStep

SpecStartup == InitStartup /\ [][NextStartup]_vars

\* ------------------------------------------------------------ diff stats --

\* the lines of details.diff: additions, removals, file headers, context, hunk
\* headers, the empty line, and lines of plus and minus signs only
DiffLines ==
  {<<>>, <<"+">>, <<"+", "a">>, <<"+", "+">>, <<"+", "+", "+">>,
   <<"+", "+", "+", " ", "b">>, <<"-">>, <<"-", "b">>, <<"-", "-", "-">>,
   <<"-", "-", "-", "-">>, <<" ", "c">>, <<"@", "@">>, <<" ", "+">>}

MaxDiffLines == 4

\* details.diff split at "\n"; the empty string is no line at all here
Diffs == UNION {[1..n -> DiffLines] : n \in 0..MaxDiffLines}

\* parseDiffStats(diff)
ParseDiffStats ==
  /\ ~diffCall.called
  /\ diffCall' = [diffCall EXCEPT !.stats = parseDiffStats(diffCall.diff),
                                   !.called = TRUE]
  /\ UNCHANGED <<metaCall, stateFile, saveVars, msgVars, shutdown, daemon, startup, batchVars, seenVars,
                 fileVars, tailVars>>

InitDiff ==
  /\ InitCore
  /\ NoSave
  /\ NoSessionsJson
  /\ Configured
  /\ daemon = IdleDaemon("auto", FALSE)
  /\ startup = Started
  /\ seenIdsSet = <<>>
  /\ insertLog = <<>>
  /\ debugProcessAll = FALSE
  /\ \E diff \in Diffs : diffCall = [diff |-> diff, stats |-> NoStats, called |-> FALSE]
  /\ metaCall = NoMetaCall

NextDiff == ParseDiffStats

SpecDiff == InitDiff /\ [][NextDiff]_vars

\* ------------------------------------------------------------ read errors --

\* the catch of tailFile storing where the stream got to
offsetAfterErrorAtStreamEnd(stored, p) == p.offset + p.bytes

\* watcher.ts:336-339 the stream throws inside `for await`: the catch logs,
\* `state.offsets[offsetKey] = newOffset` is not reached
offsetAfterError(stored, p) == stored

\* reading fails in a tailFile call whose stream is open
TailError ==
  /\ \E i \in 1..Len(passes) :
       LET p == passes[i]
       IN  /\ p.pc = "lines"
           /\ offsets' = [offsets EXCEPT ![p.file] = offsetAfterError(@, p)]
           /\ readError' = [failed |-> TRUE, file |-> p.file, stored |-> offsets[p.file],
                            newOffset |-> p.newOffset, left |-> Len(p.lines),
                            again |-> ~readError.again]
           /\ passes' = SubSeq(passes, 1, i - 1) \o SubSeq(passes, i + 1, Len(passes))
  /\ UNCHANGED <<restVars, batchVars, seenVars, fileVars, debugProcessAll, lastLine,
                 resultFor, lastPass, firstSize, sessionMetadata>>

\* the lengths of the lines JSON.parse rejects
BadLens == {1}

\* a writer appends a complete line that is no JSON
WriteBad == \E f \in Files, n \in BadLens : WriteLine(f, BadRow(n), TRUE)

\* sessions.json names the session or not; either mode of the first offset
InitRead ==
  /\ InitCore
  /\ NoSave
  /\ diffCall = [diff |-> <<>>, stats |-> NoStats, called |-> FALSE]
  /\ metaCall = NoMetaCall
  /\ sessionMetadata \in [SessionKeys -> {NoMetadata, LoadedMetadata}]
  /\ Configured
  /\ daemon = IdleDaemon("auto", FALSE)
  /\ startup = Started
  /\ seenIdsSet = <<>>
  /\ insertLog = <<>>
  /\ debugProcessAll \in BOOLEAN

NextRead ==
  \/ AppendRecord
  \/ WriteBad
  \/ TailStartIdle
  \/ TailOpen
  \/ TailLine
  \/ TailStore
  \/ TailError

SpecRead == InitRead /\ [][NextRead]_vars

\* ------------------------------------------------------------ two files ----

\* row.id values of the records of the session's topic file
OtherRowIds == {"x"}

\* tailFile on <id>-topic-2.jsonl, the other file of the session, takes a
\* thinking_level_change record off its stream: one turn of its loop
TailOther ==
  /\ \E f \in Files, id \in OtherRowIds :
       LET st == processRow(TailState, LevelRow(id), getBaseSessionId(f), "2")
       IN  /\ Len(st.heap) <= MaxEvents
           /\ SetTailState(st)
           /\ sessionMetadata' = st.sessionMetadata
  /\ UNCHANGED <<restVars, now, retryAfterMs, delivered, lastSendAt, insertLog, lastCall,
                 fileVars, debugProcessAll, offsets, passes, lastLine, resultFor, lastPass,
                 firstSize, readError>>

NextOrder ==
  \/ AppendRecord
  \/ TailStart
  \/ TailOpen
  \/ TailLine
  \/ TailStore
  \/ TailOther

SpecOrder == InitTail /\ [][NextOrder]_vars

\* ------------------------------------------------------------ user messages -

\* the texts a user message may carry
UserTexts ==
  {<<"hello!">>,
   <<>>,
   <<FourDots>>,
   <<ImageUserText, Space, "hi">>,
   <<ImageUserText, Space>>,
   <<ConversationInfo>>,
   <<ConversationInfo, Fence, "metadata", Fence>>,
   <<ConversationInfo, Fence, "metadata", Fence, Space, "hi">>,
   <<ConversationInfo, Fence, "metadata", Fence, Space, "hello!">>}
MaxUserRows == 2

\* the agent appends a user message to a session file
AppendUser ==
  /\ RecordsWritten < MaxUserRows
  /\ \E f \in Files, text \in UserTexts :
       WriteLine(f, UserRow(RowIdSeq[RecordsWritten + 1], text), TRUE)

NextUser ==
  \/ AppendUser
  \/ TailStartIdle
  \/ TailOpen
  \/ TailLine
  \/ TailStore
  \/ TimerFire
  \/ SendStep
  \/ Tick

SpecUser == InitTail /\ [][NextUser]_vars

\* ------------------------------------------------------------ state save ---

\* the snapshot saveState serialises: state.seenIds = [...seenIdsSet], with
\* state.offsets
Snapshot == <<offsets, seenIdsSet>>

\* the path writeFileSync is given
Target(d) == IF d.mode = "rename" THEN "tmp" ELSE "file"

\* saveState / saveStateAtomic: writeFileSync opens its path, which truncates
\* the file or creates it
SaveOpen ==
  /\ disk.pc = "idle"
  /\ LET fresh == [exists |-> TRUE, snap |-> Snapshot, parts |-> 0]
     IN  disk' = IF Target(disk) = "tmp"
                 THEN [disk EXCEPT !.pc = "writing", !.tmp = fresh, !.prev = disk.file]
                 ELSE [disk EXCEPT !.pc = "writing", !.file = fresh, !.prev = disk.file]
  /\ UNCHANGED <<lock, diffCall, metaCall, stateFile, msgVars, shutdown, daemon, startup, batchVars,
                 seenVars, fileVars, tailVars>>

\* writeFileSync writes the next piece of the text
SaveWrite ==
  /\ disk.pc = "writing"
  /\ IF Target(disk) = "tmp"
     THEN /\ disk.tmp.parts < NumParts
          /\ disk' = [disk EXCEPT !.tmp.parts = @ + 1]
     ELSE /\ disk.file.parts < NumParts
          /\ disk' = [disk EXCEPT !.file.parts = @ + 1]
  /\ UNCHANGED <<lock, diffCall, metaCall, stateFile, msgVars, shutdown, daemon, startup, batchVars,
                 seenVars, fileVars, tailVars>>

\* writeFileSync returns; renameSync(tempFile, STATE_FILE) where there is one
SaveClose ==
  /\ disk.pc = "writing"
  /\ IF Target(disk) = "tmp"
     THEN /\ disk.tmp.parts = NumParts
          /\ disk' = [disk EXCEPT !.pc = "idle", !.file = disk.tmp, !.tmp = NoFile]
     ELSE /\ disk.file.parts = NumParts
          /\ disk' = [disk EXCEPT !.pc = "idle"]
  /\ UNCHANGED <<lock, diffCall, metaCall, stateFile, msgVars, shutdown, daemon, startup, batchVars,
                 seenVars, fileVars, tailVars>>

\* the process dies, at any point
Crash ==
  /\ disk.pc # "crashed"
  /\ disk' = [disk EXCEPT !.pc = "crashed"]
  /\ UNCHANGED <<lock, diffCall, metaCall, stateFile, msgVars, shutdown, daemon, startup, batchVars,
                 seenVars, fileVars, tailVars>>

\* the daemon at work between saves: tailFile records an identifier
Record == disk.pc = "idle" /\ HasSeenId

\* either state module may be the one built
InitSave ==
  /\ InitCore
  /\ disk \in {NoDisk(mode) : mode \in SaveModes}
  /\ diffCall = [diff |-> <<>>, stats |-> NoStats, called |-> FALSE]
  /\ metaCall = NoMetaCall
  /\ NoSessionsJson
  /\ Configured
  /\ daemon = IdleDaemon("auto", FALSE)
  /\ startup = Started
  /\ debugProcessAll = FALSE
  /\ seenIdsSet = <<>>
  /\ insertLog = <<>>

NextSave ==
  \/ Record
  \/ SaveOpen
  \/ SaveWrite
  \/ SaveClose
  \/ Crash

SpecSave == InitSave /\ [][NextSave]_vars

\* ------------------------------------------------------------ state lock ---

\* acquireLock: the executor takes the free lock and resolves, or queues the
\* resolver
acquireLock(lk, c) ==
  IF ~lk.stateLock
  THEN [lk EXCEPT !.stateLock = TRUE, !.pc[c] = "granted", !.granted = Append(@, c)]
  ELSE [lk EXCEPT !.stateQueue = Append(@, c), !.pc[c] = "queued"]

\* releaseLock: resolve the first of the queue, who has the lock then, or free it
releaseLock(lk) ==
  IF lk.stateQueue # <<>>
  THEN LET next == Head(lk.stateQueue)
       IN  [lk EXCEPT !.stateQueue = Tail(@), !.pc[next] = "granted",
                      !.granted = Append(@, next)]
  ELSE [lk EXCEPT !.stateLock = FALSE]

\* saveStateAtomic releasing at the end of its try block only
afterSaveNoFinally(lk, c, ok) ==
  LET done == [lk EXCEPT !.pc[c] = "done",
                         !.failed = IF ok THEN @ ELSE @ \cup {c}]
  IN  IF ok THEN releaseLock(done) ELSE done

\* part_009:58-62 catch logs, finally { releaseLock() }
afterSave(lk, c, ok) ==
  releaseLock([lk EXCEPT !.pc[c] = "done",
                         !.failed = IF ok THEN @ ELSE @ \cup {c}])

\* saveStateAtomic is called: up to `await acquireLock()`
AskLock ==
  /\ \E c \in Savers :
       /\ lock.pc[c] = "idle"
       /\ lock' = [acquireLock(lock, c) EXCEPT !.asked = Append(@, c)]
  /\ UNCHANGED <<disk, diffCall, metaCall, stateFile, msgVars, shutdown, daemon, startup, batchVars,
                 seenVars, fileVars, tailVars>>

\* saveStateAtomic after the await: the temporary file is written and
\* renamed, or mkdirSync, writeFileSync or renameSync throws; then the lock
\* is released
SaveLocked ==
  /\ \E c \in Savers, ok \in BOOLEAN :
       /\ lock.pc[c] = "granted"
       /\ lock' = afterSave(lock, c, ok)
       /\ disk' = IF ok
                  THEN [disk EXCEPT !.prev = disk.file,
                                    !.file = [exists |-> TRUE, snap |-> Snapshot,
                                              parts |-> NumParts]]
                  ELSE disk
  /\ UNCHANGED <<diffCall, metaCall, stateFile, msgVars, shutdown, daemon, startup, batchVars,
                 seenVars, fileVars, tailVars>>

InitLock ==
  /\ InitCore
  /\ NoSave
  /\ diffCall = [diff |-> <<>>, stats |-> NoStats, called |-> FALSE]
  /\ metaCall = NoMetaCall
  /\ NoSessionsJson
  /\ Configured
  /\ daemon = IdleDaemon("auto", FALSE)
  /\ startup = Started
  /\ debugProcessAll = FALSE
  /\ seenIdsSet = <<>>
  /\ insertLog = <<>>

NextLock ==
  \/ AskLock
  \/ SaveLocked

\* the continuation of a resolved promise runs
SpecLock == InitLock /\ [][NextLock]_vars /\ WF_vars(SaveLocked)

\* ------------------------------------------------------------ session metadata

\* A file name, a session id, a project name: the sequence of its characters.
Rep(c, n) == [i \in 1..n |-> c]
DecimalDigits == {"0", "1", "2", "3", "4", "5", "6", "7", "8", "9"}
HexDash == {"a", "b", "c", "d", "e", "f", "-"} \cup DecimalDigits
DotJsonl == <<".", "j", "s", "o", "n", "l">>
DashTopic == <<"-", "t", "o", "p", "i", "c", "-">>
\* the {36} of both file name patterns
ID_LENGTH == 36
SLICE_LENGTH == 8

AllIn(seq, set) == \A i \in 1..Len(seq) : seq[i] \in set
EndsWith(name, tail) ==
  /\ Len(name) >= Len(tail)
  /\ SubSeq(name, Len(name) - Len(tail) + 1, Len(name)) = tail

\* (-topic-\d+)?\.jsonl$ from the start of rest
TopicAndJsonl(rest) ==
  \/ rest = DotJsonl
  \/ /\ Len(rest) > Len(DashTopic) + Len(DotJsonl)
     /\ SubSeq(rest, 1, Len(DashTopic)) = DashTopic
     /\ EndsWith(rest, DotJsonl)
     /\ AllIn(SubSeq(rest, Len(DashTopic) + 1, Len(rest) - Len(DotJsonl)), DecimalDigits)

\* /^[a-f0-9-]{36}(-topic-\d+)?\.jsonl$/.test(filename)
isValidSessionFile(filename) ==
  /\ Len(filename) >= ID_LENGTH
  /\ AllIn(SubSeq(filename, 1, ID_LENGTH), HexDash)
  /\ TopicAndJsonl(SubSeq(filename, ID_LENGTH + 1, Len(filename)))

\* filename.replace(/\.jsonl$/, "")
stripJsonl(filename) ==
  IF EndsWith(filename, DotJsonl)
  THEN SubSeq(filename, 1, Len(filename) - Len(DotJsonl))
  ELSE filename

\* the name without .jsonl, whatever the name
baseSessionIdWholeName(filename) == stripJsonl(filename)

\* getBaseSessionId(filename) on the characters of the name:
\* filename.match(/^([a-f0-9-]{36})(?:-topic-\d+)?\.jsonl$/), group 1 or the
\* name without its .jsonl
baseSessionId(filename) ==
  IF /\ Len(filename) >= ID_LENGTH
     /\ AllIn(SubSeq(filename, 1, ID_LENGTH), HexDash)
     /\ TopicAndJsonl(SubSeq(filename, ID_LENGTH + 1, Len(filename)))
  THEN SubSeq(filename, 1, ID_LENGTH)
  ELSE stripJsonl(filename)

\* where /-topic-(\d+)\.jsonl$/ matches in the name
TopicAt(filename) ==
  {i \in 1..Len(filename) :
     /\ i + Len(DashTopic) + Len(DotJsonl) <= Len(filename)
     /\ SubSeq(filename, i, i + Len(DashTopic) - 1) = DashTopic
     /\ EndsWith(filename, DotJsonl)
     /\ AllIn(SubSeq(filename, i + Len(DashTopic), Len(filename) - Len(DotJsonl)), DecimalDigits)}

\* getThreadNumber(filename) on the characters of the name (<<>>: null)
threadNumber(filename) ==
  IF TopicAt(filename) = {} THEN <<>>
  ELSE LET i == CHOOSE j \in TopicAt(filename) : \A k \in TopicAt(filename) : j <= k
       IN  SubSeq(filename, i + Len(DashTopic), Len(filename) - Len(DotJsonl))

\* the -topic-<n> of a name, <<>> when getThreadNumber gives null
threadSuffix(filename) ==
  IF threadNumber(filename) = <<>> THEN <<>> ELSE DashTopic \o threadNumber(filename)

\* The values of an entry: strings, "undefined" for a field that is not set;
\* token counts, -1 for undefined; cwd as the segments between its slashes,
\* <<>> for ""; projectName and the session key as character sequences.
Undefined == "undefined"
MetadataEntry(cwd, projectName, model, chatType, key, agentName, contextTokens, usedTokens, provider, surface, updatedAt, groupId, thinkingLevel) ==
  [cwd |-> cwd, projectName |-> projectName, model |-> model, chatType |-> chatType,
   key |-> key, agentName |-> agentName, contextTokens |-> contextTokens,
   usedTokens |-> usedTokens, provider |-> provider, surface |-> surface,
   updatedAt |-> updatedAt, groupId |-> groupId, thinkingLevel |-> thinkingLevel]

\* sessionMetadata.set(sessionKey, entry) on a map from session keys to entries
metadataSet(map, sessionKey, entry) ==
  [k \in DOMAIN map \cup {sessionKey} |-> IF k = sessionKey THEN entry ELSE map[k]]

\* a log record as far as the metadata reads it: row.type ("model-snapshot":
\* type "custom" with customType "model-snapshot"), row.cwd, row.thinkingLevel,
\* row.modelId or row.data.modelId, row.message.usage.totalTokens; "", <<>> and
\* 0 when the record does not carry the field
MetaRow(type, cwd, thinkingLevel, modelId, totalTokens) ==
  [type |-> type, cwd |-> cwd, thinkingLevel |-> thinkingLevel, modelId |-> modelId,
   totalTokens |-> totalTokens]

\* parts[parts.length - 1] || sessionKey of row.cwd.split("/")
projectNameOf(cwd, sessionKey) ==
  IF cwd[Len(cwd)] # <<>> THEN cwd[Len(cwd)] ELSE sessionKey

\* tailFile, rowType === "session" && row?.cwd
onSessionRow(map, sessionKey, row) ==
  IF row.type = "session" /\ row.cwd # <<>>
  THEN IF sessionKey \in DOMAIN map
       THEN [map EXCEPT ![sessionKey].cwd = row.cwd,
                        ![sessionKey].projectName = projectNameOf(row.cwd, sessionKey)]
       ELSE metadataSet(map, sessionKey,
              MetadataEntry(row.cwd, projectNameOf(row.cwd, sessionKey), "", "unknown", <<>>,
                            Undefined, -1, -1, Undefined, Undefined, Undefined, Undefined,
                            Undefined))
  ELSE map

\* tailFile, rowType === "thinking_level_change": the metadata part
onLevelRow(map, sessionKey, row) ==
  IF row.type = "thinking_level_change" /\ sessionKey \in DOMAIN map
  THEN [map EXCEPT ![sessionKey].thinkingLevel =
                     IF row.thinkingLevel # "" THEN row.thinkingLevel ELSE "unknown"]
  ELSE map

\* tailFile, rowType === "model_change" && row?.modelId: the metadata part
onModelRow(map, sessionKey, row) ==
  IF row.type = "model_change" /\ row.modelId # "" /\ sessionKey \in DOMAIN map
  THEN [map EXCEPT ![sessionKey].model = row.modelId]
  ELSE map

\* tailFile, the model-snapshot record
onSnapshotRow(map, sessionKey, row) ==
  IF /\ row.type = "model-snapshot" /\ row.modelId # ""
     /\ sessionKey \in DOMAIN map /\ map[sessionKey].model = ""
  THEN [map EXCEPT ![sessionKey].model = row.modelId]
  ELSE map

\* tailFile, row?.message?.usage?.totalTokens
onUsageRow(map, sessionKey, row) ==
  IF row.totalTokens # 0 /\ sessionKey \in DOMAIN map
  THEN [map EXCEPT ![sessionKey].usedTokens = row.totalTokens]
  ELSE map

\* what one line of tailFile does to sessionMetadata
tailMetadata(map, sessionKey, row) ==
  onUsageRow(onSnapshotRow(onModelRow(onLevelRow(onSessionRow(map, sessionKey, row),
                                                 sessionKey, row),
                                      sessionKey, row),
                           sessionKey, row),
             sessionKey, row)

\* the maps tailFile goes through on the lines rows, the first one included
RECURSIVE tailMaps(_, _, _)
tailMaps(map, sessionKey, rows) ==
  IF rows = <<>> THEN <<map>>
  ELSE <<map>> \o tailMaps(tailMetadata(map, sessionKey, Head(rows)), sessionKey, Tail(rows))

\* scanAllFiles, the loop over the lines of one file on its local variables
RECURSIVE scanLines(_, _, _)
scanLines(acc, sessionKey, rows) ==
  IF rows = <<>> THEN acc
  ELSE LET row == Head(rows)
           a1 == IF row.type = "session" /\ row.cwd # <<>>
                 THEN [acc EXCEPT !.projectName = projectNameOf(row.cwd, sessionKey),
                                  !.cwd = row.cwd]
                 ELSE acc
           a2 == IF row.type = "thinking_level_change"
                 THEN [a1 EXCEPT !.thinkingLevel =
                                   IF row.thinkingLevel # "" THEN row.thinkingLevel
                                   ELSE Undefined]
                 ELSE a1
           a3 == IF row.totalTokens # 0 THEN [a2 EXCEPT !.usedTokens = row.totalTokens] ELSE a2
           a4 == IF row.type = "model_change" /\ row.modelId # ""
                 THEN [a3 EXCEPT !.model = row.modelId]
                 ELSE a3
           a5 == IF row.type = "model-snapshot" /\ row.modelId # "" /\ a4.model = ""
                 THEN [a4 EXCEPT !.model = row.modelId]
                 ELSE a4
       IN  scanLines(a5, sessionKey, Tail(rows))

\* scanAllFiles on one file of the sessions directory of agentName: the local
\* variables from the existing entry or their defaults, the lines, and
\* sessionMetadata.set
scanFile(map, agentName, filename, rows) ==
  LET sessionKey == baseSessionId(filename)
      has == sessionKey \in DOMAIN map
      existing == IF has THEN map[sessionKey]
                  ELSE MetadataEntry(<<>>, <<>>, "", "", <<>>, Undefined, -1, -1, Undefined,
                                     Undefined, Undefined, Undefined, Undefined)
      start == [existing EXCEPT
                  !.projectName = IF @ # <<>> THEN @ ELSE SubSeq(sessionKey, 1, SLICE_LENGTH),
                  !.chatType = IF @ \notin {"", Undefined} THEN @ ELSE "unknown",
                  !.model = IF @ # Undefined THEN @ ELSE "",
                  !.agentName = agentName]
  IN  metadataSet(map, sessionKey, scanLines(start, sessionKey, rows))

\* formatTimeOnly(ts): hours and minutes of a time in milliseconds
MS_PER_MINUTE == 60000
formatTimeOnly(ts) == IF (ts \div MS_PER_MINUTE) % 2 = 0 THEN "00:00" ELSE "00:01"

\* an entry of sessions.json: its key as the parts between the colons, and
\* sessionId, updatedAt, contextTokens, model ("" and 0: not there)
JsonEntry(key, sessionId, updatedAt, contextTokens, model) ==
  [key |-> key, sessionId |-> sessionId, updatedAt |-> updatedAt,
   contextTokens |-> contextTokens, model |-> model]

OrElse(value, default) == IF value # "" THEN value ELSE default

\* loadSessionsJson(agentName) on a sessions.json with the entries json
loadEntry(map, agentName, e) ==
  LET parts == e.key
      n == Len(parts)
      sub == n = 4 /\ parts[3] = "subagent"
      keyAgentName == IF n >= 4 THEN OrElse(parts[2], agentName) ELSE agentName
      surface == IF n >= 5 THEN parts[3]
                 ELSE IF sub THEN "subagent"
                 ELSE IF n \in {3, 4} THEN parts[3] ELSE ""
      chatType == IF n >= 5 THEN OrElse(parts[4], "unknown")
                  ELSE IF sub THEN "subagent"
                  ELSE IF n = 4 THEN OrElse(parts[4], "unknown")
                  ELSE IF n = 3 THEN "direct" ELSE "unknown"
      groupId == IF n >= 5 THEN parts[5] ELSE IF sub THEN parts[4] ELSE ""
      formattedUpdatedAt == IF e.updatedAt # 0 THEN formatTimeOnly(e.updatedAt) ELSE ""
  IN  IF e.sessionId = <<>> THEN map
      ELSE IF e.sessionId \in DOMAIN map
      THEN [map EXCEPT ![e.sessionId] =
              [@ EXCEPT !.chatType = chatType, !.key = e.key, !.agentName = keyAgentName,
                        !.surface = surface, !.updatedAt = formattedUpdatedAt,
                        !.groupId = groupId,
                        !.contextTokens = IF e.contextTokens # 0 THEN e.contextTokens ELSE @,
                        !.model = IF e.model # "" THEN e.model ELSE @]]
      ELSE metadataSet(map, e.sessionId,
             MetadataEntry(<<>>, SubSeq(e.sessionId, 1, SLICE_LENGTH), e.model, chatType,
                           e.key, keyAgentName,
                           IF e.contextTokens # 0 THEN e.contextTokens ELSE -1, -1,
                           Undefined, surface, formattedUpdatedAt, groupId, Undefined))

RECURSIVE loadSessionsJson(_, _, _)
loadSessionsJson(map, agentName, json) ==
  IF json = <<>> THEN map
  ELSE loadSessionsJson(loadEntry(map, agentName, Head(json)), agentName, Tail(json))

\* the agent whose sessions directory is read, and the names a file in it may have
AgentName == "main"
Id1 == Rep("a", 8) \o <<"-">> \o Rep("0", 4) \o <<"-">> \o Rep("4", 4) \o <<"-">>
       \o Rep("b", 4) \o <<"-">> \o Rep("9", 12)
SessionFiles ==
  {Id1 \o DotJsonl,
   Id1 \o DashTopic \o <<"7">> \o DotJsonl,
   Id1 \o DashTopic \o <<"1", "2">> \o DotJsonl,
   Rep("-", ID_LENGTH) \o DotJsonl}
OtherFiles ==
  {SubSeq(Id1, 2, ID_LENGTH) \o DotJsonl,
   Id1 \o DashTopic \o DotJsonl,
   Id1 \o <<".", "j", "s", "o", "n">>,
   <<"s", "e", "s", "s", "i", "o", "n", "s", ".", "j", "s", "o", "n">>}
FileNames == SessionFiles \cup OtherFiles

\* the records a session file may hold
MetaRows ==
  {MetaRow("session", <<<<"u">>, <<"p">>>>, "", "", 0),
   MetaRow("session", <<<<"u">>, <<>>>>, "", "", 0),
   MetaRow("thinking_level_change", <<>>, "high", "", 0),
   MetaRow("model_change", <<>>, "", "m1", 0),
   MetaRow("model-snapshot", <<>>, "", "m2", 0),
   MetaRow("message", <<>>, "", "", 7)}
MaxMetaRows == 2

\* the sessions.json files of the agent: none, or one entry
SessionsJsons ==
  {<<>>,
   <<JsonEntry(<<"agent", "main", "telegram", "group", "g1">>, Id1, 60000, 5, "m0")>>,
   <<JsonEntry(<<"agent", "other", "subagent", "g2">>, Id1, 0, 0, "")>>,
   <<JsonEntry(<<"agent", "main", "discord">>, Id1, 0, 9, "")>>}
MaxReloads == 1

\* a session file appears in the sessions directory
CreateFile ==
  /\ DOMAIN files = {}
  /\ \E filename \in FileNames : files' = [f \in {filename} |-> <<>>]
  /\ UNCHANGED <<batchVars, seenVars, openTail, tailVars, restVars>>

\* the agent appends a record to its session file
AppendMetaRow ==
  /\ \E f \in DOMAIN files, row \in MetaRows :
       /\ Len(files[f]) < MaxMetaRows
       /\ files' = [files EXCEPT ![f] = Append(@, row)]
  /\ UNCHANGED <<batchVars, seenVars, openTail, tailVars, restVars>>

\* where tailFile starts in a file, in lines: state.offsets[offsetKey], or the
\* end of the file (the start under DEBUG_PROCESS_ALL) for a file it has not read
startOffset(f) ==
  IF f \in DOMAIN offsets THEN offsets[f]
  ELSE IF debugProcessAll THEN 0 ELSE Len(files[f])

\* tailFile(filename, agentName) from the watcher callback, its metadata
tailFile(map, f) ==
  tailMaps(map, baseSessionId(f), SubSeq(files[f], startOffset(f) + 1, Len(files[f])))

TailFileMeta ==
  /\ metaCall.op # "none"
  /\ \E f \in DOMAIN files :
       /\ isValidSessionFile(f)
       /\ LET maps == tailFile(sessionMetadata, f)
          IN  /\ sessionMetadata' = maps[Len(maps)]
              /\ offsets' = [k \in DOMAIN offsets \cup {f} |->
                               IF k = f THEN Len(files[f]) ELSE offsets[k]]
              /\ metaCall' = [metaCall EXCEPT
                                !.op = "tail", !.filename = f,
                                !.sessionKey = baseSessionId(f), !.scanRows = <<>>,
                                !.scanMaps = <<>>,
                                !.rows = SubSeq(files[f], startOffset(f) + 1, Len(files[f])),
                                !.maps = maps]
  /\ UNCHANGED <<batchVars, seenVars, fileVars, debugProcessAll, passes, lastLine, resultFor,
                 lastPass, firstSize, readError, msgVars, shutdown, daemon, startup, diffCall,
                 stateFile, saveVars>>

\* scanAllFiles at startup: loadSessionsJson, then for each valid file of the
\* directory (there is at most one) the scan of its lines and tailFile
ScanAllFiles ==
  /\ metaCall.op = "none"
  /\ \E json \in SessionsJsons :
       LET loaded == loadSessionsJson(sessionMetadata, AgentName, json)
           valid == {f \in DOMAIN files : isValidSessionFile(f)}
       IN  IF valid = {}
           THEN /\ sessionMetadata' = loaded
                /\ metaCall' = [metaCall EXCEPT !.op = "scan"]
                /\ UNCHANGED offsets
           ELSE \E f \in valid :
                  LET scanned == scanFile(loaded, AgentName, f, files[f])
                      maps == tailFile(scanned, f)
                  IN  /\ sessionMetadata' = maps[Len(maps)]
                      /\ offsets' = [k \in DOMAIN offsets \cup {f} |->
                                       IF k = f THEN Len(files[f]) ELSE offsets[k]]
                      /\ metaCall' = [metaCall EXCEPT
                                        !.op = "scan", !.filename = f,
                                        !.sessionKey = baseSessionId(f),
                                        !.scanRows = files[f],
                                        !.scanMaps = <<loaded, scanned>>,
                                        !.rows = SubSeq(files[f], startOffset(f) + 1,
                                                        Len(files[f])),
                                        !.maps = maps]
  /\ UNCHANGED <<batchVars, seenVars, fileVars, debugProcessAll, passes, lastLine, resultFor,
                 lastPass, firstSize, readError, msgVars, shutdown, daemon, startup, diffCall,
                 stateFile, saveVars>>

\* reloadAllSessionsJson, every 30000 ms
ReloadAllSessionsJson ==
  /\ metaCall.op # "none"
  /\ metaCall.loads < MaxReloads
  /\ \E json \in SessionsJsons :
       /\ sessionMetadata' = loadSessionsJson(sessionMetadata, AgentName, json)
       /\ metaCall' = [metaCall EXCEPT !.op = "load", !.scanRows = <<>>, !.scanMaps = <<>>,
                                       !.rows = <<>>, !.maps = <<>>, !.loads = @ + 1]
  /\ UNCHANGED <<batchVars, seenVars, fileVars, debugProcessAll, offsets, passes, lastLine,
                 resultFor, lastPass, firstSize, readError, msgVars, shutdown, daemon, startup,
                 diffCall, stateFile, saveVars>>

\* the daemon starts with an empty map, before or after a session file exists
InitMeta ==
  /\ now = 0
  /\ retryAfterMs = 0
  /\ heap = <<>>
  /\ pendingEvents = [k \in GroupKeys |-> <<>>]
  /\ batchTimers = [k \in GroupKeys |-> 0]
  /\ timerHeap = {}
  /\ nextTimer = 1
  /\ lastEventTime = [k \in GroupKeys |-> -1]
  /\ flights = {}
  /\ rendered = {}
  /\ delivered = [r \in 1..MaxEvents |-> 0]
  /\ dropped = {}
  /\ lastSendAt = -1
  /\ lastCall = [id |-> SeenKey("", ""), result |-> FALSE, inserts |-> 0]
  /\ openTail = [f \in Files |-> FALSE]
  /\ passes = <<>>
  /\ toolCallTimestamps = <<>>
  /\ lastLine = [kind |-> "none", id |-> "", threw |-> FALSE, matched |-> {}]
  /\ resultFor = [r \in 1..MaxEvents |-> NoRow]
  /\ lastPass = [f \in Files |->
                   [done |-> FALSE, solo |-> FALSE, shape |-> <<0, FALSE>>]]
  /\ firstSize = [f \in Files |-> -1]
  /\ lastHeaderTime = [k \in GroupKeys |-> -1]
  /\ built = NotBuilt
  /\ headerLog = [k \in GroupKeys |-> -1]
  /\ plainLog = [k \in GroupKeys |-> FALSE]
  /\ sent = [text |-> -1, handed |-> -1]
  /\ shutdown = NotShuttingDown
  /\ stateFile = [written |-> FALSE, offsets |-> [f \in Files |-> -1], seenIds |-> <<>>]
  /\ lock = Unlocked
  /\ readError = NoReadError
  /\ files = [f \in {} |-> <<>>]
  /\ offsets = [f \in {} |-> -1]
  /\ sessionMetadata = [k \in {} |-> NoMetadata]
  /\ metaCall = NoMetaCall
  /\ debugProcessAll \in BOOLEAN
  /\ NoSave
  /\ diffCall = [diff |-> <<>>, stats |-> NoStats, called |-> FALSE]
  /\ Configured
  /\ daemon = IdleDaemon("auto", FALSE)
  /\ startup = Started
  /\ seenIdsSet = <<>>
  /\ insertLog = <<>>

NextMeta ==
  \/ CreateFile
  \/ AppendMetaRow
  \/ ScanAllFiles
  \/ TailFileMeta
  \/ ReloadAllSessionsJson

SpecMeta == InitMeta /\ [][NextMeta]_vars

\* ------------------------------------------------------------ main, fair ---

\* the two 30000 ms intervals of main: saveState writes state.offsets and the
\* seen ids to the state file; reloadAllSessionsJson reads sessions.json of
\* every agent again and calls no tailFile
Interval ==
  /\ startup.pc = "running"
  /\ stateFile' = [written |-> TRUE, offsets |-> offsets, seenIds |-> seenIdsSet]
  /\ UNCHANGED <<diffCall, metaCall, saveVars, msgVars, shutdown, daemon, startup, batchVars, seenVars,
                 fileVars, tailVars>>

InitRescan ==
  /\ InitStartup
  /\ Configured

NextRescan ==
  \/ Main
  \/ ScanFile
  \/ StartWatcher
  \/ Watch
  \/ Write
  \/ TailStep
  \/ Interval

\* main runs on, a tailFile call that was started goes on, and the intervals
\* fire; whether fs.watch reports an append is up to the platform
SpecRescan ==
  /\ InitRescan
  /\ [][NextRescan]_vars
  /\ WF_vars(Main) /\ WF_vars(ScanFile) /\ WF_vars(StartWatcher)
  /\ WF_vars(TailStep) /\ WF_vars(Interval)

\* ------------------------------------------------------------ batch, fair --

\* addEvent early enough for the batch window to end before the clock stops
AddEventInTime == now + BATCH_WINDOW_MS <= MaxTime /\ AddEvent

NextBatchLive ==
  \/ AddEventInTime
  \/ TimerFire
  \/ SendStep
  \/ FlushAll
  \/ Cleanup
  \/ SetRetryAfter
  \/ Tick

\* the event loop runs a timer that is due, and time goes on
SpecBatchLive ==
  InitBatch /\ [][NextBatchLive]_vars /\ WF_vars(TimerFire) /\ WF_vars(SendStep) /\ WF_vars(Tick)

\* ------------------------------------------------------------ claims ----

TimersOf(k) == {t \in timerHeap : t.key = k}

\* C1: under addEvent, timer expiry, size-triggered flush, flushAllBatches and
\* cleanupStaleData, the runtime holds at most one armed flush timer per group
\* key, and it is the one batchTimers records for the key.
C1_AtMostOneTimerPerKey ==
  \A k \in GroupKeys :
    /\ Cardinality(TimersOf(k)) <= 1
    /\ \A t \in TimersOf(k) : batchTimers[k] = t.id

\* C1 happens: a key whose batch was flushed before has a timer armed again
\* while a second event waits behind the first.
C1_Witness ==
  \E k \in GroupKeys :
    /\ TimersOf(k) # {}
    /\ Len(pendingEvents[k]) >= 2
    /\ \E r \in rendered : r.key = k

\* C2: after every step no group holds MAX_BATCH_SIZE or more pending events,
\* and every batch handed to render has at most MAX_BATCH_SIZE events.
C2_SizeFlushInSameStep ==
  /\ \A k \in GroupKeys : Len(pendingEvents[k]) < MAX_BATCH_SIZE
  /\ \A r \in rendered : Len(r.batch) <= MAX_BATCH_SIZE

\* C2 happens: a batch of exactly MAX_BATCH_SIZE events was rendered, so the
\* addEvent that filled it flushed it and cancelled the armed timer.
C2_Witness ==
  \E r \in rendered :
    /\ Len(r.batch) = MAX_BATCH_SIZE
    /\ TimersOf(r.key) = {}
    /\ pendingEvents[r.key] = <<>>

\* C3: every PendingEvent is in at most one batch handed to the send step.
C3_DeliveredAtMostOnce ==
  \A r \in 1..MaxEvents : delivered[r] <= 1

\* C3 happens: two batches of one group were both sent.
C3_Witness ==
  \E r1, r2 \in 1..Len(heap) :
    /\ r1 # r2
    /\ delivered[r1] = 1 /\ delivered[r2] = 1
    /\ ~(\E r \in rendered : r1 \in Range(r.batch) /\ r2 \in Range(r.batch))
    /\ \E r \in rendered, q \in rendered :
         /\ r.key = q.key
         /\ r1 \in Range(r.batch) /\ r2 \in Range(q.batch)

\* the pass at position i ran out of lines and this step is its offset store
StoresOffset(i) ==
  /\ i \in 1..Len(passes)
  /\ passes[i].pc = "lines"
  /\ passes[i].lines = <<>>
  /\ Len(passes') = Len(passes) - 1
  /\ passes' = SubSeq(passes, 1, i - 1) \o SubSeq(passes, i + 1, Len(passes))

\* C4 as stated: an identifier recorded as seen never gets a second
\* PendingEvent, however many other identifiers were recorded in between.
C4_NeverReemitted ==
  \A i, j \in 1..Len(heap) : i < j => heap[i].id # heap[j].id

\* C4, amended: an identifier gets a second PendingEvent only after it left the
\* seen set, that is after MAX_SEEN_IDS other identifiers were recorded (each
\* with its event) behind it.
C4_NotReemittedWhileSeen ==
  \A i, j \in 1..Len(heap) :
    (i < j /\ heap[i].id = heap[j].id) =>
      Cardinality({heap[k].id : k \in (i + 1)..(j - 1)} \ {heap[i].id}) >= MAX_SEEN_IDS

\* C4 happens: two overlapping passes have both consumed the same record from
\* the same offset, its identifier is in the seen set, and it has one event.
C4_Witness ==
  \E i, j \in 1..Len(passes) :
    /\ i # j
    /\ passes[i].file = passes[j].file
    /\ passes[i].pc = "lines" /\ passes[j].pc = "lines"
    /\ passes[i].offset = passes[j].offset
    /\ passes[i].newOffset > passes[i].offset
    /\ passes[j].newOffset = passes[i].newOffset
    /\ Len(heap) = 1
    /\ heap[1].id \in Range(seenIdsSet)

\* C5: the offset a pass stores is the offset it started from plus the bytes
\* its stream delivered (every line with its newline, blank lines included).
C5_OffsetAdvancesByBytesConsumed ==
  [][\A i \in 1..Len(passes) :
       StoresOffset(i) =>
         offsets'[passes[i].file] = passes[i].offset + passes[i].bytes]_vars

\* C6: a pass that started after a pass of its own on the same file had
\* finished, with the file as that pass found it and no other pass on the file
\* since, adds no event and stores the offset it started from.
C6_SecondPassIsNoOp ==
  [][\A i \in 1..Len(passes) :
       (/\ StoresOffset(i)
        /\ passes[i].second
        /\ passes[i].solo
        /\ passes[i].shape = FileShape(passes[i].file)) =>
         /\ passes[i].added = 0
         /\ offsets'[passes[i].file] = passes[i].offset]_vars

\* C7: no step lowers the stored offset of a file.
C7_OffsetNeverDecreases ==
  [][\A f \in Files : offsets[f] # -1 => offsets'[f] >= offsets[f]]_vars

\* C8: once hasSeenId has inserted an identifier, the seen set holds at most
\* MAX_SEEN_IDS identifiers and they are the MAX_SEEN_IDS most recently
\* inserted ones (identifiers loaded from the state file counting as inserted
\* first), oldest first.
C8_SeenSetBoundedMostRecent ==
  lastCall.inserts > 0 =>
    /\ Len(seenIdsSet) <= MAX_SEEN_IDS
    /\ seenIdsSet = SliceLast(insertLog, MAX_SEEN_IDS)

\* C8 happens: insertions pushed identifiers out, one of them came back in
\* later, and the set is full.
C8_Witness ==
  /\ lastCall.inserts >= MAX_SEEN_IDS + 2
  /\ Len(seenIdsSet) = MAX_SEEN_IDS
  /\ \E i \in 1..Len(insertLog) : insertLog[i] \notin Range(seenIdsSet)
  /\ \E i, j \in 1..Len(insertLog) : i < j /\ insertLog[i] = insertLog[j]

\* C9: a toolCall event that had its tool-result line tailed while it was
\* pending is rendered with the result's error flag, with the result's explicit
\* duration or else result timestamp minus call timestamp, and, for edit and
\* write, with the statistics of the result's diff.
C9_RenderedCallCarriesResult ==
  \A r \in rendered : \A k \in 1..Len(r.batch) :
    LET row == resultFor[r.batch[k]]
        e == r.events[k]
    IN  row.kind = "toolResult" =>
          /\ e.isError = row.isError
          /\ e.durationMs = IF row.durationMs # -1 THEN row.durationMs
                            ELSE row.timestamp - e.timestamp
          /\ e.name \in {"edit", "write"} => e.diffStats = parseDiffStats(row.diff)

\* the pass at position i takes the next line of its stream in this step
ConsumesLine(i) ==
  /\ i \in 1..Len(passes)
  /\ passes[i].pc = "lines"
  /\ passes[i].lines # <<>>
  /\ Len(passes') = Len(passes)
  /\ passes'[i].lines = Tail(passes[i].lines)

\* C10: tailing a tool-result line that has no pending toolCall event with its
\* id does not end in the catch block and changes no event, pending or not; and
\* every batch handed to render still holds the events as they were rendered.
C10_UnmatchedResultChangesNothing ==
  /\ [](\A r \in rendered : \A k \in 1..Len(r.batch) : r.events[k] = heap[r.batch[k]])
  /\ [][\A i \in 1..Len(passes) :
          (/\ ConsumesLine(i)
           /\ Head(passes[i].lines).kind = "toolResult"
           /\ PendingMatch(Head(passes[i].lines),
                           GroupKeyOf(getBaseSessionId(passes[i].file),
                                      getThreadNumber(passes[i].file))) = {}) =>
            /\ heap' = heap
            /\ pendingEvents' = pendingEvents
            /\ rendered' = rendered
            /\ flights' = flights
            /\ ~lastLine'.threw]_vars

\* C10 happens: the last line tailed was a tool result whose call had been
\* rendered with its batch before, so that nothing pending matched it.
C10_Witness ==
  /\ lastLine.kind = "toolResult"
  /\ lastLine.matched = {}
  /\ \E r \in rendered : \E k \in 1..Len(r.batch) :
       /\ r.events[k].type = "toolCall"
       /\ r.events[k].id = SeenKey("", lastLine.id)

\* C11: the text buildMessage returns is at most MAX_MESSAGE_LENGTH long, and
\* when it left an event out for lack of room the text has the overflow marker.
C11_BuiltMessageFits ==
  built.len # -1 =>
    /\ built.len <= MAX_MESSAGE_LENGTH
    /\ built.leftOut => built.marker

\* C12: the text sendMessage hands to the transport is at most
\* MAX_MESSAGE_LENGTH long, whatever text it was called with.
C12_SentTextFits ==
  sent.handed <= MAX_MESSAGE_LENGTH

\* C12 happens: sendMessage was called with a longer text and handed over a
\* text of exactly MAX_MESSAGE_LENGTH.
C12_Witness ==
  /\ sent.text > MAX_MESSAGE_LENGTH
  /\ sent.handed = MAX_MESSAGE_LENGTH


\* the group keys whose batch a step drops under cooldown
DroppedKeys == {k \in GroupKeys : Range(pendingEvents[k]) \cap (dropped' \ dropped) # {}}

C13_DroppedStaysDropped ==
  \A r \in dropped :
    /\ delivered[r] = 0
    /\ \A k \in GroupKeys : r \notin Range(pendingEvents[k])
    /\ \A f \in flights : r \notin Range(f.batch)
    /\ \A m \in rendered : r \notin Range(m.batch)

C13_DropStep ==
  \A k \in DroppedKeys :
    /\ now < retryAfterMs
    /\ Range(pendingEvents[k]) \subseteq dropped'
    /\ pendingEvents'[k] = <<>>
    /\ batchTimers'[k] = 0
    /\ {t \in timerHeap' : t.key = k} = {}
    /\ {f \in flights' : f.key = k} = {f \in flights : f.key = k}
    /\ {m \in rendered' : m.key = k} = {m \in rendered : m.key = k}
    /\ delivered' = delivered

\* C13: a flush that runs while now < retryAfter removes the whole batch from
\* the pending map and clears the key's timer entry, sends nothing for it, and
\* the dropped events are never pending, rendered or sent afterwards.
C13_CooldownFlushDropsBatch ==
  [] C13_DroppedStaysDropped /\ [][C13_DropStep]_vars

\* a batch was dropped under cooldown and the same key batches a later event
C13_Witness ==
  \E r \in dropped : \E k \in GroupKeys :
    /\ GroupKeyOf(heap[r].sessionKey, heap[r].threadNumber) = k
    /\ pendingEvents[k] # <<>>
    /\ batchTimers[k] # 0


\* a step in which a flushEvents call comes back from its sleep and sends
Sends == flights' # flights /\ flights' \subseteq flights

\* C17: any two consecutive calls of the send function are at least
\* RATE_LIMIT_MS apart, whatever the interleaving of the flushes, flushes of
\* distinct groups started at the same time included.
C17_SendsSpaced ==
  [][Sends => (lastSendAt = -1 \/ now - lastSendAt >= RATE_LIMIT_MS)]_vars


\* the step in which `await flushAllBatches()` returns to gracefulShutdown
Resolves == shutdown.exited' /\ ~shutdown.exited

\* an event that was handed to the send function or dropped under cooldown
Settled(r) == delivered[r] > 0 \/ r \in dropped

C15_ShutdownOrder ==
  /\ shutdown.shuttingDown' /\ ~shutdown.shuttingDown
       => ~shutdown.watching' /\ ~shutdown.exited'
  /\ Resolves => shutdown.shuttingDown /\ ~shutdown.watching

C15_NothingPendingAtExit ==
  shutdown.exited =>
    /\ \A k \in GroupKeys : pendingEvents[k] = <<>>
    /\ \A r \in 1..Len(heap) : Settled(r)

\* C15: on a shutdown signal the daemon stops the watchers, then flushes all
\* batches, then persists state and exits; when state is persisted no
\* extracted event is pending, and every one was handed to delivery or dropped
\* by the cooldown policy.
C15_ShutdownLosesNothing ==
  [] C15_NothingPendingAtExit /\ [][C15_ShutdownOrder]_vars

C16_DetachedAtCall ==
  Resolves => \A r \in shutdown.refs : Settled(r)

C16_NoTimerAtResolve ==
  Resolves => timerHeap = {} /\ \A k \in GroupKeys : batchTimers[k] = 0

\* C16: when flushAllBatches resolves no flush timer is outstanding, and every
\* group that had pending events when it was called was detached and handed to
\* send or dropped under cooldown.
C16_FlushAllDrains ==
  [][C16_NoTimerAtResolve /\ C16_DetachedAtCall]_vars


\* the events daemon.ts holds in pendingEvents
DaemonPending ==
  UNION {Range(daemon.pendingEvents[i].events) : i \in 1..Len(daemon.pendingEvents)}

\* the sendMessage calls whose text carried event e
CallsWith(e) == {c \in daemon.calls : e \in Range(c.batch)}

\* C14: after a webhook send got HTTP 429 with Retry-After N, a batch that a
\* flush meets within the next N seconds is dropped: it is not pending again,
\* the webhook is not attempted for it and the CLI sink is not invoked for it,
\* except in auto mode, where the CLI sink is invoked for it.
C14_CooldownFlushDropsOrFallsBack ==
  \A e \in daemon.cooled :
    /\ e \notin DaemonPending
    /\ \A c \in CallsWith(e) : ~c.webhook /\ daemon.sendMethod = "auto"
    /\ daemon.sendMethod = "auto" => \E c \in CallsWith(e) : c.cli

\* C18: a sendMessage call in webhook mode uses the webhook only, in fallback
\* mode the CLI only, and in auto mode the webhook first and the CLI exactly
\* when the webhook attempt failed.
C18_SinkByMode ==
  \A c \in daemon.calls :
    /\ daemon.sendMethod = "webhook" => c.webhook /\ ~c.cli
    /\ daemon.sendMethod = "fallback" => ~c.webhook /\ c.cli
    /\ daemon.sendMethod = "auto" => c.webhook /\ (c.cli <=> ~c.ok)

\* C18 happens: in auto mode one call was answered 2xx and went no further,
\* another failed and was handed to the CLI
C18_Witness ==
  /\ daemon.sendMethod = "auto"
  /\ \E c \in daemon.calls : c.ok /\ ~c.cli
  /\ \E c \in daemon.calls : ~c.ok /\ c.cli


\* the byte at which line i of a file starts
LineStart(content, i) == FileSize(SubSeq(content, 1, i - 1), FALSE)

\* the lines of file f that event r can have been made from
LinesOf(f, r) ==
  {i \in 1..Len(files[f]) :
     /\ files[f][i].kind = "thinking_level_change"
     /\ heap[r].id = SeenKey("thinking_level", files[f][i].id)
     /\ heap[r].sessionKey = getBaseSessionId(f)}

C19_InitialisedToSize ==
  \A f \in Files :
    (offsets[f] = -1 /\ offsets'[f] # -1) =>
      \E i \in 1..Len(passes) :
        /\ passes[i].file = f
        /\ passes[i].pc = "stat"
        /\ offsets'[f] = passes[i].size
        /\ firstSize'[f] = passes[i].size

C19_NothingBeforeSize ==
  \A f \in Files :
    firstSize[f] # -1 =>
      /\ offsets[f] >= firstSize[f]
      /\ \A r \in 1..Len(heap) : \A i \in LinesOf(f, r) :
           LineStart(files[f], i) >= firstSize[f]

\* C19: with history mode off, a file that tailFile meets for the first time
\* at size S gets the offset S, and no event is ever made from a line that
\* starts before byte S, in that pass or a later one.
C19_BacklogSkipped ==
  [] C19_NothingBeforeSize /\ [][C19_InitialisedToSize]_vars

\* C19 happens: the file held a record when it was first met, that record has
\* no event, and a record written later has one
C19_Witness ==
  \E f \in Files :
    /\ firstSize[f] > 0
    /\ \E i \in 1..Len(files[f]) :
         /\ files[f][i].kind = "thinking_level_change"
         /\ LineStart(files[f], i) < firstSize[f]
         /\ \A r \in 1..Len(heap) : i \notin LinesOf(f, r)
    /\ \E r \in 1..Len(heap) : LinesOf(f, r) # {}


\* main is over: the process has exited or runs with its watchers on
MainOver == startup.pc \in {"exited", "running"}

ExitedNonZero == startup.pc = "exited" /\ startup.exitCode # 0

ConfigMissing == ~config.channel \/ ~config.targetId

\* nothing of main after its checks has happened
NothingStarted ==
  /\ startup.pidFile # "own"
  /\ ~startup.stateLoaded
  /\ ~startup.scanned /\ passes = <<>> /\ \A f \in Files : offsets[f] = -1
  /\ ~startup.watching

BeginsWith(l, ch, n) == Len(l) >= n /\ \A i \in 1..n : l[i] = ch

\* the lines of a diff that begin with ch but not with three of it
MarkedLines(diff, ch) ==
  {i \in 1..Len(diff) : BeginsWith(diff[i], ch, 1) /\ ~BeginsWith(diff[i], ch, 3)}

\* C21: parseDiffStats returns added = the number of lines that start with
\* "+" but not "+++", removed = the number of lines that start with "-" but
\* not "---", and no statistics when both numbers are zero.
C21_DiffStatsCountMarkedLines ==
  diffCall.called =>
    LET added == Cardinality(MarkedLines(diffCall.diff, "+"))
        removed == Cardinality(MarkedLines(diffCall.diff, "-"))
    IN  IF added = 0 /\ removed = 0 THEN ~diffCall.stats.defined
        ELSE /\ diffCall.stats.defined
             /\ diffCall.stats.added = added
             /\ diffCall.stats.removed = removed

\* C21 happens: the diff "+a\n-b\n+a" between file headers gave added = 2,
\* removed = 1
C21_Witness ==
  /\ diffCall.called
  /\ \E i \in 1..Len(diffCall.diff) : BeginsWith(diffCall.diff[i], "+", 3)
  /\ diffCall.stats.defined
  /\ diffCall.stats.added = 2
  /\ diffCall.stats.removed = 1


\* a flushEvents call on key k has detached a batch and has not sent it yet
Flushing(k) == \E f \in flights : f.key = k

\* key k has a batch in pendingEvents and its flush timer armed
Accumulating(k) == pendingEvents[k] # <<>> /\ TimersOf(k) # {}

\* C22: for no group key are there at the same time a flush in progress (batch
\* detached, sleep or send not finished) and an accumulating batch with an
\* armed timer.
C22_NeverFlushingAndAccumulating ==
  \A k \in GroupKeys : ~(Flushing(k) /\ Accumulating(k))


\* the batch of key k goes on: what was pending is the beginning of what is
BatchGoesOn(k) ==
  /\ pendingEvents[k] # <<>>
  /\ Len(pendingEvents'[k]) >= Len(pendingEvents[k])
  /\ SubSeq(pendingEvents'[k], 1, Len(pendingEvents[k])) = pendingEvents[k]

C23_TimerCoversBatch ==
  \A k \in GroupKeys :
    pendingEvents[k] # <<>> => \E t \in TimersOf(k) : t.due >= now

C23_WindowFromFirstEvent ==
  \A k \in GroupKeys :
    /\ (pendingEvents[k] = <<>> /\ pendingEvents'[k] # <<>>) =>
         \E t \in timerHeap' : t.key = k /\ t.due = now + BATCH_WINDOW_MS
    /\ BatchGoesOn(k) => {t \in timerHeap' : t.key = k} = TimersOf(k)
    /\ \A r \in Range(pendingEvents[k]) \ Range(pendingEvents'[k]) :
         r \in dropped' \/ \E f \in flights' : r \in Range(f.batch)

C23_NeverPendingForever ==
  \A k \in GroupKeys : (pendingEvents[k] # <<>>) ~> (pendingEvents[k] = <<>>)

\* C23: every event added to a group is eventually detached by a flush and
\* then sent or dropped; its batch has a timer due BATCH_WINDOW_MS after the
\* first event of the batch was added, which later events of the batch neither
\* re-arm nor put off, so it is detached no later than that.
C23_DetachedWithinWindow ==
  /\ [] C23_TimerCoversBatch
  /\ [][C23_WindowFromFirstEvent]_vars
  /\ C23_NeverPendingForever

\* C23 happens: a batch of two events, the second added later than the first,
\* waits for the timer armed with the first
C23_Witness ==
  \E k \in GroupKeys :
    /\ Len(pendingEvents[k]) = 2
    /\ now > 0
    /\ lastEventTime[k] = now
    /\ \E t \in TimersOf(k) : t.due < now + BATCH_WINDOW_MS


\* the records of the session files: file and line
Records ==
  {<<f, i>> \in Files \X (1..MaxLines) :
     i <= Len(files[f]) /\ files[f][i].kind = "thinking_level_change"}

\* the events made from the record at line i of file f, oldest first
EventsOf(f, i) == {r \in 1..Len(heap) : i \in LinesOf(f, r)}

\* no tailFile call on file f has stored an offset yet: the calls that have
\* read lines of f so far are all in progress together
OnlyOverlappingPasses(f) == ~lastPass[f].done /\ Cardinality(PassesOn(f)) = 2

Untailed(f) ==
  /\ startup.pc = "running"
  /\ offsets[f] # -1
  /\ ~openTail[f]
  /\ FileSize(files[f], openTail[f]) <= MAX_FILE_SIZE
  /\ offsets[f] < FileSize(files[f], openTail[f])

\* C25: every line appended to a valid session file is eventually tailed
\* without any change notification, by a periodic rescan: once the daemon
\* runs, lines appended beyond the stored offset of a file do not stay there
\* for ever.
C25_AppendedEventuallyTailed ==
  \A f \in Files : Untailed(f) ~> ~Untailed(f)


Max(a, b) == IF a >= b THEN a ELSE b

\* C26: when reading fails in the middle of a tail pass, the stored offset of
\* the file is not advanced past the end of the last line the pass consumed
\* (it was there before only if another pass had stored it).
C26_ErrorDoesNotAdvanceOffset ==
  [][readError' # readError =>
       offsets'[readError'.file] <= Max(readError'.stored, readError'.newOffset)]_vars

\* C26 happens: a pass consumed a line, failed with lines still to read, and
\* the stored offset is where it was
C26_Witness ==
  /\ readError.failed
  /\ readError.left > 0
  /\ readError.newOffset > readError.stored
  /\ offsets[readError.file] = readError.stored


\* tailFile call i takes a line JSON.parse rejects off its stream in this step
TakesBadLine(i) ==
  /\ i <= Len(passes)
  /\ passes[i].pc = "lines"
  /\ passes[i].lines # <<>>
  /\ Head(passes[i].lines).kind = "bad"
  /\ Len(passes') = Len(passes)
  /\ passes'[i] # passes[i]

\* tailFile call i stores its offset and returns in this step
Stores(i) ==
  /\ i <= Len(passes)
  /\ passes[i].pc = "lines"
  /\ passes[i].lines = <<>>
  /\ Len(passes') < Len(passes)
  /\ readError' = readError
  /\ \A j \in 1..Len(passes') : passes'[j] = passes[IF j < i THEN j ELSE j + 1]

\* C27: a line that fails JSON parsing is skipped and the pass goes on: the
\* step adds no event, records no identifier and changes no metadata, the
\* call keeps every later line to process with the bad line counted in its
\* offset, and the offset a call stores at its end is that offset, past the
\* bad line.
C27_BadLineSkipped ==
  [][/\ \A i \in 1..MaxPasses :
          TakesBadLine(i) =>
            /\ heap' = heap
            /\ pendingEvents' = pendingEvents
            /\ batchTimers' = batchTimers
            /\ seenIdsSet' = seenIdsSet
            /\ sessionMetadata' = sessionMetadata
            /\ toolCallTimestamps' = toolCallTimestamps
            /\ passes'[i].pc = "lines"
            /\ passes'[i].lines = Tail(passes[i].lines)
            /\ passes'[i].newOffset = passes[i].newOffset + Head(passes[i].lines).len + 1
     /\ \A i \in 1..MaxPasses :
          (Stores(i) /\ Cardinality(PassesOn(passes[i].file)) = 1) =>
            offsets'[passes[i].file] = passes[i].newOffset]_vars

\* C27 happens: a pass has read a bad line and, after it, a record that made
\* an event and set the thinking level, and has stored an offset past both
C27_Witness ==
  \E f \in Files :
    /\ lastPass[f].done
    /\ PassesOn(f) = {}
    /\ Len(files[f]) >= 2
    /\ files[f][1].kind = "bad"
    /\ files[f][2].kind = "thinking_level_change"
    /\ EventsOf(f, 2) # {}
    /\ sessionMetadata[getBaseSessionId(f)].thinkingLevel = thinkingLevelOf(files[f][2])
    /\ offsets[f] = FileSize(files[f], openTail[f])
    /\ ~readError.failed


\* C28: hasSeenId(id) returns false exactly when id is not in the seen set,
\* and then inserts it; it returns true and leaves the set as it is, order
\* included, otherwise. What an inserting call evicts are the identifiers
\* inserted earliest: what is kept is the most recent end of the insertion
\* order, MAX_SEEN_IDS long when anything was evicted.
C28_HasSeenIdAnswersAndKeepsOrder ==
  [][lastCall' # lastCall =>
       LET id == lastCall'.id
           inserted == Append(seenIdsSet, id)
       IN  /\ lastCall'.result = (id \in Range(seenIdsSet))
           /\ lastCall'.result => seenIdsSet' = seenIdsSet
           /\ ~lastCall'.result =>
                /\ id \in Range(seenIdsSet')
                /\ \E k \in 0..Len(seenIdsSet) :
                     /\ seenIdsSet' = SubSeq(inserted, k + 1, Len(inserted))
                     /\ k > 0 => Len(seenIdsSet') = MAX_SEEN_IDS
                     /\ k = 0 => Len(inserted) <= MAX_SEEN_IDS]_vars

\* C28 happens: after evictions, a call found the identifier that is next to
\* be evicted in a full set, and it still is next to be evicted
C28_Witness ==
  /\ lastCall.result
  /\ lastCall.inserts > MAX_SEEN_IDS
  /\ Len(seenIdsSet) = MAX_SEEN_IDS
  /\ seenIdsSet[1] = lastCall.id


\* the events of the last buildMessage call that became lines of its message
EventLines ==
  Len(built.lines) - (IF built.showHeader THEN 1 ELSE 0) - (IF built.marker THEN 1 ELSE 0)

\* C29: when buildMessage stops for lack of room, the N of its `+N more`
\* marker is the number of events of the batch that are not lines of the
\* message, with or without header line, with or without suppressed events.
C29_MoreCountsUnrendered ==
  built.marker => built.remaining = Len(built.formatted) - EventLines


\* C30: for each group key, the first message built has the header; a
\* message built less than HEADER_INTERVAL_MS after the last message with
\* header of the key has none; a message with header is built at least
\* HEADER_INTERVAL_MS after the one with header before it; and a message
\* without header does not restart the interval: HEADER_INTERVAL_MS after the
\* last message with header, the next message has the header again.
C30_HeaderOncePerInterval ==
  [][built' # built =>
       LET last == headerLog[built'.groupKey]
       IN  /\ last = -1 => built'.showHeader
           /\ (last # -1 /\ now - last < HEADER_INTERVAL_MS) => ~built'.showHeader
           /\ (last # -1 /\ built'.showHeader) => now - last >= HEADER_INTERVAL_MS
           /\ (last # -1 /\ now - last >= HEADER_INTERVAL_MS) => built'.showHeader
           /\ ~built'.showHeader => headerLog' = headerLog]_vars

\* C30 happens: after a message with header and one without, a message is
\* built with the header again
C30_Witness ==
  /\ built.showHeader
  /\ built.afterPlain
  /\ headerLog[built.groupKey] >= HEADER_INTERVAL_MS


\* format.ts formatEvent of the events tailFile makes of thinking_level_change
\* records: `${time} ... Thinking level: ${level}`, a short line
formatEvent(event) == 40

\* the events of a batch handed to render, in the order of the event lines of
\* its message
ShownOf(b) ==
  LET out == buildLines([i \in 1..Len(b.batch) |-> formatEvent(b.events[i])], 1, <<>>, 0)
  IN  [j \in 1..Len(out.shown) |-> b.batch[out.shown[j]]]

\* event r is the first one made of line i of file f
FirstOf(f, i, r) == r \in EventsOf(f, i) /\ \A q \in EventsOf(f, i) : r <= q

\* the order of sequence s agrees with the order of the lines of file f:
\* whenever two of its events are made of lines i1 and i2, an earlier place
\* means an earlier line
InLineOrder(f, s, firstOnly) ==
  \A j1, j2 \in 1..Len(s) : \A i1, i2 \in 1..Len(files[f]) :
    (/\ j1 < j2
     /\ s[j1] \in EventsOf(f, i1) /\ s[j2] \in EventsOf(f, i2)
     /\ firstOnly => (FirstOf(f, i1, s[j1]) /\ FirstOf(f, i2, s[j2])))
      => i1 <= i2

\* C31 as stated: within one file, events are added to the batch of their
\* group in the order of their lines, and the event lines of a rendered
\* message are in that order too.
C31_EventsInLineOrder ==
  \A f \in Files :
    /\ \A k \in GroupKeys : InLineOrder(f, pendingEvents[k], FALSE)
    /\ \A b \in rendered : InLineOrder(f, b.batch, FALSE) /\ InLineOrder(f, ShownOf(b), FALSE)

\* C31 amended: the first events of the lines of a file are added to the batch
\* of their group in the order of the lines, and rendered in it; an event
\* added again for a line whose identifier left the seen set comes after the
\* events of later lines.
C31_FirstEventsInLineOrder ==
  \A f \in Files :
    /\ \A k \in GroupKeys : InLineOrder(f, pendingEvents[k], TRUE)
    /\ \A b \in rendered : InLineOrder(f, b.batch, TRUE) /\ InLineOrder(f, ShownOf(b), TRUE)
    /\ \A b \in rendered : \A j1, j2 \in 1..Len(ShownOf(b)) :
         j1 < j2 => ShownOf(b)[j1] < ShownOf(b)[j2]

\* C31 happens: a message was rendered of a full batch, its event lines made
\* of the first lines of one file, one after the other
C31_Witness ==
  \E f \in Files : \E b \in rendered :
    /\ Len(ShownOf(b)) = MAX_BATCH_SIZE
    /\ \A j \in 1..Len(ShownOf(b)) : FirstOf(f, j, ShownOf(b)[j])


\* a file that holds a whole snapshot
Complete(file) == file.exists /\ file.parts = NumParts

\* C32: whenever the process crashes during a state save, the state file holds
\* the whole of the snapshot saved before or the whole of the new one (or is
\* not there yet, when nothing was saved before), never a part of one.
C32_StateFileWholeAfterCrash ==
  disk.pc = "crashed" =>
    \/ disk.file = disk.prev /\ (disk.file.exists => Complete(disk.file))
    \/ Complete(disk.file)


\* the saveStateAtomic calls that hold the lock
Holders == {c \in Savers : lock.pc[c] = "granted"}

\* C33, the safe part: at most one caller holds the lock, the lock is taken
\* exactly while one holds it, whether the saves before succeeded or failed,
\* and the lock was granted in the order in which it was asked for.
C33_OneHolderInOrder ==
  /\ Cardinality(Holders) <= 1
  /\ lock.stateLock = (Holders # {})
  /\ Len(lock.granted) <= Len(lock.asked)
  /\ lock.granted = SubSeq(lock.asked, 1, Len(lock.granted))
  /\ Range(lock.stateQueue) = {c \in Savers : lock.pc[c] = "queued"}

\* C33: the lock has one holder at most, is granted in the order of the
\* asking, and every caller that waits gets it in the end, after saves that
\* succeeded and after saves that failed.
C33_LockServesAllInOrder ==
  /\ []C33_OneHolderInOrder
  /\ \A c \in Savers : (lock.pc[c] = "queued") ~> (lock.pc[c] = "granted")

\* C33 happens: a caller that waited behind a save that failed, with another
\* waiting behind it, has the lock
C33_Witness ==
  \E c \in Savers :
    /\ lock.pc[c] = "granted"
    /\ lock.failed # {}
    /\ Len(lock.granted) > 1
    /\ lock.stateQueue # <<>>

\* the keys a tailFile or scanAllFiles call wrote: those it set, and those
\* whose entry is not what it was before the call
WrittenKeys ==
  LET before == IF metaCall.scanMaps # <<>> THEN metaCall.scanMaps[1] ELSE metaCall.maps[1]
  IN  {k \in DOMAIN sessionMetadata : k \notin DOMAIN before \/ sessionMetadata[k] # before[k]}
        \cup (IF metaCall.scanMaps # <<>> THEN {metaCall.sessionKey} ELSE {})

\* -topic- occurs in the key
HasTopic(key) ==
  \E i \in 1..Len(key) :
    /\ i + Len(DashTopic) - 1 <= Len(key)
    /\ SubSeq(key, i, i + Len(DashTopic) - 1) = DashTopic

\* C34: every key of sessionMetadata that tailFile or scanAllFiles wrote for a
\* file is the base session id of the file: the first 36 characters of its
\* name, 36 characters long and without a -topic-<n> suffix, for the file
\* <id>.jsonl and for the file <id>-topic-<n>.jsonl alike.
C34_KeysAreBaseSessionIds ==
  (metaCall.op \in {"tail", "scan"} /\ metaCall.filename # <<>>) =>
    \A k \in WrittenKeys :
      /\ Len(k) = ID_LENGTH
      /\ k = SubSeq(metaCall.filename, 1, ID_LENGTH)
      /\ ~HasTopic(k)
      /\ k \o threadSuffix(metaCall.filename) \o DotJsonl = metaCall.filename

\* the scan of a file <id>-topic-<n>.jsonl made the entry of <id>
C34_Witness ==
  /\ metaCall.op = "scan"
  /\ threadNumber(metaCall.filename) = <<"1", "2">>
  /\ metaCall.sessionKey \notin DOMAIN metaCall.scanMaps[1]
  /\ DOMAIN sessionMetadata = {Id1}

\* the fields of an entry, and those a record carries
MetadataFields ==
  {"cwd", "projectName", "model", "chatType", "key", "agentName", "contextTokens",
   "usedTokens", "provider", "surface", "updatedAt", "groupId", "thinkingLevel"}
Carried(row) ==
  (IF row.type = "session" /\ row.cwd # <<>> THEN {"cwd", "projectName"} ELSE {})
    \cup (IF row.type = "thinking_level_change" THEN {"thinkingLevel"} ELSE {})
    \cup (IF row.type \in {"model_change", "model-snapshot"} /\ row.modelId # ""
          THEN {"model"} ELSE {})
    \cup (IF row.totalTokens # 0 THEN {"usedTokens"} ELSE {})

\* from the map before to the map after, the entries of the other sessions and
\* the fields of the session's entry outside carried are what they were
KeepsOtherFields(before, after, sessionKey, carried) ==
  /\ \A k \in DOMAIN before : k \in DOMAIN after /\ (k # sessionKey => after[k] = before[k])
  /\ sessionKey \in DOMAIN before =>
       \A field \in MetadataFields \ carried :
         after[sessionKey][field] = before[sessionKey][field]

\* tailFile: each record leaves every field it does not carry as it was
TailKeepsOtherFields ==
  \A i \in 1..Len(metaCall.rows) :
    KeepsOtherFields(metaCall.maps[i], metaCall.maps[i + 1], metaCall.sessionKey,
                     Carried(metaCall.rows[i]))

\* C35: applying a log record to a session's metadata changes only the fields
\* the record carries, in tailFile record by record and in the startup scan
\* for the records of the file it scans: every other field of the entry keeps
\* the value it had, none is set to a default.
C35_OnlyCarriedFieldsChange ==
  /\ TailKeepsOtherFields
  /\ metaCall.scanMaps # <<>> =>
       KeepsOtherFields(metaCall.scanMaps[1], metaCall.scanMaps[2], metaCall.sessionKey,
                        UNION {Carried(metaCall.scanRows[i]) : i \in 1..Len(metaCall.scanRows)})

\* the entry of sessionKey in map holds what the record carries
HoldsCarried(map, sessionKey, row) ==
  /\ (row.type = "model_change" /\ row.modelId # "") =>
       sessionKey \in DOMAIN map /\ map[sessionKey].model = row.modelId
  /\ (row.type = "thinking_level_change" /\ row.thinkingLevel # "") =>
       sessionKey \in DOMAIN map /\ map[sessionKey].thinkingLevel = row.thinkingLevel
  /\ row.totalTokens # 0 =>
       sessionKey \in DOMAIN map /\ map[sessionKey].usedTokens = row.totalTokens

\* C36: after tailFile has processed a model_change, thinking_level_change or
\* token-usage record of a session, the session's entry in sessionMetadata
\* holds the model, thinking level or token count of the record, whether the
\* map had an entry for the session before the record or not.
C36_TailStoresCarriedValue ==
  \A i \in 1..Len(metaCall.rows) :
    HoldsCarried(metaCall.maps[i + 1], metaCall.sessionKey, metaCall.rows[i])

\* the event r is a user message whose cleaned text formatEvent gives no line for
Suppressed(r) == heap[r].type = "user_message" /\ userMessageLine(heap[r].preview) = 0

\* C37: a user-message record whose cleanup yields no meaningful text makes no
\* PendingEvent: no event of such a record is ever made, so none is pending,
\* counted toward MAX_BATCH_SIZE, behind a flush timer, handed to the message
\* builder or sent.
C37_NoEventForSuppressedText ==
  \A r \in 1..Len(heap) : ~Suppressed(r)

\* C38: between operations a group key has an armed flush timer exactly when
\* its pending list is not empty: batchTimers has an entry for the key, and
\* the runtime holds that timer, if and only if pendingEvents has events for
\* the key, whatever addEvent, flushEvents, flushAllBatches and
\* cleanupStaleData calls came before; so flushAllBatches, which walks
\* batchTimers, leaves no group with pending events.
C38_TimerIffPending ==
  /\ \A k \in GroupKeys :
       /\ batchTimers[k] # 0 <=> pendingEvents[k] # <<>>
       /\ batchTimers[k] # 0 <=> TimersOf(k) # {}
       /\ \A t \in TimersOf(k) : t.id = batchTimers[k]
  /\ \A k \in GroupKeys : flushAllBatches(BatchState).pendingEvents[k] = <<>>

\* one group was flushed and has nothing pending and no timer, the other has
\* events pending behind its timer
C38_Witness ==
  \E k, other \in GroupKeys :
    /\ k # other
    /\ \E b \in rendered : b.key = k
    /\ pendingEvents[k] = <<>> /\ batchTimers[k] = 0
    /\ Len(pendingEvents[other]) = 2 /\ batchTimers[other] # 0

\* C39: flushEvents for one group key leaves the pending list and the timer
\* of every other group key as they were, and every batch handed to
\* _buildMessage holds only events that addEvent put under the key of the
\* batch: an event of one session and thread is in no other group's message.
C39_FlushTouchesOneGroup ==
  /\ \A k, other \in GroupKeys :
       k # other =>
         LET st == flushEvents(BatchState, k)
         IN  /\ st.pendingEvents[other] = pendingEvents[other]
             /\ st.batchTimers[other] = batchTimers[other]
             /\ {t \in st.timerHeap : t.key = other} = TimersOf(other)
  /\ \A b \in rendered :
       \A i \in 1..Len(b.events) :
         GroupKeyOf(b.events[i].sessionKey, b.events[i].threadNumber) = b.key

\* each of two groups had a batch rendered, and one of them was flushed while
\* the other had events pending behind its timer
C39_Witness ==
  \E b1, b2 \in rendered :
    /\ b1.key # b2.key
    /\ Len(b1.events) = 2
    /\ pendingEvents[b2.key] # <<>>
    /\ batchTimers[b2.key] # 0
    /\ pendingEvents[b1.key] = <<>>

====
